---- MODULE Spec2Model ----
(***************************************************************************)
(* TypeScript Code Analyzer Pro: the analysis pipeline of CodeAnalyzer     *)
(* (manifest search, performance detector, leak detector, dependency       *)
(* grapher, summary) over a small file system.                             *)
(*                                                                         *)
(* A path is the record [abs, segs] of a POSIX path string: abs says the   *)
(* string starts with '/', segs are its '/'-separated segments.  '/' is    *)
(* [TRUE, <<>>], '.' is [FALSE, <<".">>], '' is [FALSE, <<>>].             *)
(* An import specifier is the sequence of its '/'-separated segments.      *)
(***************************************************************************)
EXTENDS Integers, Sequences, FiniteSets, TLC

VARIABLES
    tsconfigs,           \* file system: the directories that hold a tsconfig.json
    sources,             \* file system: source file path -> [imports, tree, lines]
    fault,               \* the (file, step) whose analysis raises an error, or NoFault
    project,             \* CodeAnalyzer.project: source file paths of the loaded Project
    dependencyGraph,     \* DependencyAnalyzer.dependencyGraph: Map in insertion order
    pc,                  \* per call: position in analyzeProject
    projectPath,         \* per call: the argument of analyzeProject
    currentPath,         \* per call: findTsConfig's loop variable
    iteration,           \* per call: findTsConfig's loop iterations, counted modulo IterationWrap
    tsconfigPath,        \* per call: the manifest found
    performanceResults,  \* per call: await performanceAnalyzer.analyze(...)
    memoryResults,       \* per call: await memoryLeakDetector.detect(...)
    dependencyResults,   \* per call: await dependencyAnalyzer.analyze(...)
    invoked,             \* per call: the detectors invoked so far, in order
    raised,              \* per call: the error thrown inside the try block
    outcome,             \* per call: what the caller receives
    probe,               \* a metric or severity function applied on its own: argument and result
    smart,               \* SmartCommandManager: history, aliases, and the last executeCommand
    deployment           \* DeploymentManager: config, options and position in deploy

cliVars == <<smart, deployment>>
env == <<tsconfigs, sources, fault, probe, smart, deployment>>
analyzerVars == <<project, dependencyGraph>>
searchVars == <<currentPath, iteration, tsconfigPath>>
resultVars == <<performanceResults, memoryResults, dependencyResults>>
vars == <<tsconfigs, sources, fault, project, dependencyGraph, pc, projectPath,
          currentPath, iteration, tsconfigPath, performanceResults, memoryResults,
          dependencyResults, invoked, raised, outcome, probe, smart, deployment>>

\* Number of analyzeProject calls made on the one analyzer.
MaxCalls == 2
\* findTsConfig's iteration counter wraps at this value.
IterationWrap == 2

Calls == 1..MaxCalls

----------------------------------------------------------------------------
(* Sequence helpers *)

Range(s) == {s[i] : i \in 1..Len(s)}

Front(s) == SubSeq(s, 1, Len(s) - 1)

Last(s) == s[Len(s)]

RECURSIVE Flatten(_)
Flatten(ss) == IF ss = <<>> THEN <<>> ELSE Head(ss) \o Flatten(Tail(ss))

\* Array.prototype.indexOf, 1-based; 0 stands for -1.
IndexOf(s, x) ==
    IF \E i \in 1..Len(s) : s[i] = x
    THEN CHOOSE i \in 1..Len(s) : s[i] = x /\ \A j \in 1..(i - 1) : s[j] # x
    ELSE 0

Max2(a, b) == IF a >= b THEN a ELSE b

RECURSIVE SumSeq(_)
SumSeq(s) == IF s = <<>> THEN 0 ELSE Head(s) + SumSeq(Tail(s))

----------------------------------------------------------------------------
(* node:path on POSIX *)

P(a, s) == [abs |-> a, segs |-> s]

RootDir == P(TRUE, <<>>)
Dot == P(FALSE, <<".">>)
EmptyString == P(FALSE, <<>>)

\* path.parse(p).root: '/' for an absolute path, '' for a relative one.
ParseRoot(p) == IF p.abs THEN RootDir ELSE EmptyString

\* path.dirname(p): the part before the last '/'; '.' when there is none,
\* '/' when the only '/' is the leading one.
Dirname(p) ==
    IF Len(p.segs) <= 1
    THEN (IF p.abs THEN RootDir ELSE Dot)
    ELSE P(p.abs, Front(p.segs))

\* path.normalize on segments: '.' is dropped, '..' removes the segment before
\* it; a relative path keeps leading '..', an absolute one drops them.
RECURSIVE NormalizeSegs(_, _, _)
NormalizeSegs(isAbs, done, rest) ==
    IF rest = <<>> THEN done
    ELSE LET s == Head(rest) IN
         IF s = "." THEN NormalizeSegs(isAbs, done, Tail(rest))
         ELSE IF s = ".."
              THEN IF done # <<>> /\ Last(done) # ".."
                   THEN NormalizeSegs(isAbs, Front(done), Tail(rest))
                   ELSE IF isAbs
                        THEN NormalizeSegs(isAbs, done, Tail(rest))
                        ELSE NormalizeSegs(isAbs, Append(done, s), Tail(rest))
              ELSE NormalizeSegs(isAbs, Append(done, s), Tail(rest))

Normalize(p) ==
    LET n == NormalizeSegs(p.abs, <<>>, p.segs) IN
    IF n = <<>> /\ ~p.abs THEN Dot ELSE P(p.abs, n)

\* path.join(p, name)
Join(p, name) == Normalize(P(p.abs, Append(p.segs, name)))

\* path.resolve(from, to) for an absolute `from`: always absolute and normalized.
Resolve(from, to) ==
    IF to.abs THEN P(TRUE, NormalizeSegs(TRUE, <<>>, to.segs))
    ELSE P(TRUE, NormalizeSegs(TRUE, <<>>, from.segs \o to.segs))

----------------------------------------------------------------------------
(* The file system the analyzer runs on *)

\* process.cwd()
Cwd == P(TRUE, <<"w">>)

Directories == {RootDir, P(TRUE, <<"w">>), P(TRUE, <<"w", "p1">>), P(TRUE, <<"w", "p2">>)}

FileA == P(TRUE, <<"w", "p1", "a.ts">>)
FileB == P(TRUE, <<"w", "p1", "b.ts">>)
FileC == P(TRUE, <<"w", "p2", "c.ts">>)

\* The source files, in the order Project.getSourceFiles() lists them.
SourceFiles == <<FileA, FileB, FileC>>

IsPrefix(s, t) == Len(s) <= Len(t) /\ SubSeq(t, 1, Len(s)) = s

\* fs.existsSync(p): relative paths are resolved against the working directory.
ExistsSync(p) ==
    LET q == Resolve(Cwd, p) IN
       \/ q \in Directories
       \/ q \in Range(SourceFiles)
       \/ \E d \in tsconfigs : q = Join(d, "tsconfig.json")

\* new Project({tsConfigFilePath}): the source files under the manifest's directory.
LoadProject(manifest) ==
    LET dir == Dirname(Resolve(Cwd, manifest)) IN
    SelectSeq(SourceFiles, LAMBDA f : IsPrefix(dir.segs, f.segs))

----------------------------------------------------------------------------
(* Syntax trees.  A tree is the sequence of a file's nodes in the order       *)
(* forEachDescendant visits them (pre-order); parent 0 is the SourceFile.     *)
(* marks are the substrings the detectors search for that occur in the        *)
(* node's own tokens; a node's text is its own tokens and its descendants'.   *)

N(k, p, l, m) == [kind |-> k, parent |-> p, line |-> l, marks |-> m, elems |-> 0]

RECURSIVE IsAncestor(_, _, _)
\* a is a proper ancestor of node n
IsAncestor(tree, a, n) ==
    LET p == tree[n].parent IN
    IF p = 0 THEN FALSE ELSE p = a \/ IsAncestor(tree, a, p)

Descendants(tree, n) == {d \in 1..Len(tree) : IsAncestor(tree, n, d)}

\* node.getText().includes(m), for the searched substrings
TextIncludes(tree, n, m) ==
    \E d \in Descendants(tree, n) \cup {n} : m \in tree[d].marks

\* call.getExpression(): the first child of a CallExpression; 0 when the tree has none
GetExpression(tree, n) ==
    IF \E d \in 1..Len(tree) : tree[d].parent = n
    THEN CHOOSE d \in 1..Len(tree) :
            tree[d].parent = n /\ \A e \in 1..(d - 1) : tree[e].parent # n
    ELSE 0

\* node.getChildren().length of an ArrayLiteralExpression: '[', the SyntaxList
\* of its elements, and ']'.
ArrayLiteralChildren == 3

GetChildrenLength(tree, n) ==
    IF tree[n].kind = "ArrayLiteralExpression" THEN ArrayLiteralChildren
    ELSE Cardinality({d \in 1..Len(tree) : tree[d].parent = n})

\* The nodes of `tree` that are in `hits`, in visiting order.
Visit(tree, hits) == SelectSeq([i \in 1..Len(tree) |-> i], LAMBDA n : n \in hits)

Issue(t, sev, f, l) == [type |-> t, severity |-> sev, file |-> f, line |-> l]

MapIssues(tree, nodes, t, sev, f) ==
    [i \in 1..Len(nodes) |-> Issue(t, sev, f, tree[nodes[i]].line)]

----------------------------------------------------------------------------
(* The contents a source file can have *)

TreePlain == << N("FunctionDeclaration", 0, 1, {}) >>

\* function f() { for (..) { for (..) { xs.concat(ys) } } }
TreeNested ==
    << N("FunctionDeclaration", 0, 1, {}),
       N("ForStatement", 1, 2, {}),
       N("ForOfStatement", 2, 3, {}),
       N("CallExpression", 3, 4, {}),
       N("PropertyAccessExpression", 4, 4, {"concat"}) >>

\* xs.concat(ys); setTimeout(f);
\* el.addEventListener('x', () => this.items.push(1))
TreeBusy ==
    << N("CallExpression", 0, 1, {}),
       N("PropertyAccessExpression", 1, 1, {"concat"}),
       N("CallExpression", 0, 2, {}),
       N("Identifier", 3, 2, {"setTimeout"}),
       N("CallExpression", 0, 3, {}),
       N("PropertyAccessExpression", 5, 3, {"addEventListener"}),
       N("ArrowFunction", 5, 3, {}),
       N("CallExpression", 7, 3, {}),
       N("PropertyAccessExpression", 8, 3, {".push"}),
       N("PropertyAccessExpression", 9, 3, {"this."}) >>

\* a method with ten if statements, one of them on a && b
TreeComplex ==
    << N("MethodDeclaration", 0, 1, {}) >>
    \o [i \in 1..10 |-> N("IfStatement", 1, i + 1, {})]
    \o << N("BinaryExpression", 11, 11, {"&&"}) >>

Content(t, n) == [tree |-> t, lines |-> n]

Contents == {Content(TreePlain, 3), Content(TreeNested, 7),
             Content(TreeBusy, 5), Content(TreeComplex, 14)}

\* import specifiers: './b', './b.ts', '../p2/c.ts', 'lodash/fp', '@scope/pkg', 'fs'
StartsWithDot(spec) == spec # <<>> /\ Head(spec) \in {".", ".."}
StartsWithAt(spec) == spec # <<>> /\ Head(spec) \in {"@scope"}
IncludesSlash(spec) == Len(spec) > 1

NoFault == [file |-> EmptyString, step |-> "none"]
FaultSteps == {"loops", "memory", "complexity", "lines", "leaks", "imports"}

\* the step of file f's analysis that raises an error
Throws(f, step) == fault.file = f /\ fault.step = step

----------------------------------------------------------------------------
(* PerformanceAnalyzer *)

LoopKinds == {"ForStatement", "ForInStatement", "ForOfStatement"}

analyzeLoops(f) ==
    LET tree == sources[f].tree
        Nested(n) == /\ tree[n].kind \in LoopKinds
                     /\ \E a \in 1..Len(tree) :
                            IsAncestor(tree, a, n) /\ tree[a].kind \in LoopKinds
    IN MapIssues(tree, Visit(tree, {n \in 1..Len(tree) : Nested(n)}), "loop", "high", f)

LargeArrayThreshold == 1000

analyzeMemoryUsage(f) ==
    LET tree == sources[f].tree
        OfNode(n) ==
            (IF /\ tree[n].kind = "ArrayLiteralExpression"
                /\ GetChildrenLength(tree, n) > LargeArrayThreshold
             THEN << Issue("memory", "medium", f, tree[n].line) >> ELSE <<>>)
            \o
            (IF /\ tree[n].kind = "CallExpression"
                /\ (TextIncludes(tree, n, "concat") \/ TextIncludes(tree, n, "splice"))
             THEN << Issue("memory", "low", f, tree[n].line) >> ELSE <<>>)
    IN Flatten([n \in 1..Len(tree) |-> OfNode(n)])

DecisionKinds == {"IfStatement", "ForStatement", "WhileStatement", "CaseClause",
                  "CatchClause", "ConditionalExpression"}

ComplexityThreshold == 10
HighComplexityThreshold == 20

\* A complexity check that reports from the threshold on.
analyzeFunctionComplexityInclusive(f) ==
    LET tree == sources[f].tree
        fns == Visit(tree, {n \in 1..Len(tree) :
                   tree[n].kind \in {"FunctionDeclaration", "MethodDeclaration"}})
        Cx(n) == 1 + Cardinality({d \in Descendants(tree, n) :
                         tree[d].kind \in {"IfStatement", "ForStatement", "WhileStatement"}})
    IN [issues |-> Flatten([i \in 1..Len(fns) |->
                     IF Cx(fns[i]) >= 10
                     THEN << Issue("complexity",
                                   IF Cx(fns[i]) > 20 THEN "high" ELSE "medium",
                                   f, tree[fns[i]].line) >>
                     ELSE <<>>]),
        complexity |-> SumSeq([i \in 1..Len(fns) |-> Cx(fns[i])])]

\* analyzeFunctionNode: 1 plus the counted descendants
FunctionComplexity(tree, n) ==
    1 + Cardinality({d \in Descendants(tree, n) :
            \/ tree[d].kind \in DecisionKinds
            \/ /\ tree[d].kind = "BinaryExpression"
               /\ (TextIncludes(tree, d, "&&") \/ TextIncludes(tree, d, "||"))})

analyzeFunctionComplexity(f) ==
    LET tree == sources[f].tree
        IsFunction(n) == tree[n].kind \in {"FunctionDeclaration", "MethodDeclaration"}
        fns == Visit(tree, {n \in 1..Len(tree) : IsFunction(n)})
        cx == [i \in 1..Len(fns) |-> FunctionComplexity(tree, fns[i])]
        OfFunction(i) ==
            IF cx[i] > ComplexityThreshold
            THEN << Issue("complexity",
                          IF cx[i] > HighComplexityThreshold THEN "high" ELSE "medium",
                          f, tree[fns[i]].line) >>
            ELSE <<>>
    IN [issues |-> Flatten([i \in 1..Len(fns) |-> OfFunction(i)]),
        complexity |-> SumSeq(cx)]

\* The body of the per-file try block: a step that throws leaves what the
\* earlier steps of the same file have already pushed and added.
PerformanceFile(acc, f) ==
    IF Throws(f, "loops") THEN acc
    ELSE LET a1 == [acc EXCEPT !.issues = @ \o analyzeLoops(f)] IN
    IF Throws(f, "memory") THEN a1
    ELSE LET a2 == [a1 EXCEPT !.issues = @ \o analyzeMemoryUsage(f)] IN
    IF Throws(f, "complexity") THEN a2
    ELSE LET r == analyzeFunctionComplexity(f)
             a3 == [a2 EXCEPT !.issues = @ \o r.issues,
                              !.cyclomaticComplexity = @ + r.complexity] IN
    IF Throws(f, "lines") THEN a3
    ELSE [a3 EXCEPT !.linesOfCode = @ + sources[f].lines]

RECURSIVE PerformanceLoop(_, _)
PerformanceLoop(acc, files) ==
    IF files = <<>> THEN acc
    ELSE PerformanceLoop(PerformanceFile(acc, Head(files)), Tail(files))

\* Math.log(n) in millionths, rounded, for n = 1..64
LnMicro ==
    << 0, 693147, 1098612, 1386294, 1609438, 1791759, 1945910, 2079442,
       2197225, 2302585, 2397895, 2484907, 2564949, 2639057, 2708050, 2772589,
       2833213, 2890372, 2944439, 2995732, 3044522, 3091042, 3135494, 3178054,
       3218876, 3258097, 3295837, 3332205, 3367296, 3401197, 3433987, 3465736,
       3496508, 3526361, 3555348, 3583519, 3610918, 3637586, 3663562, 3688879,
       3713572, 3737670, 3761200, 3784190, 3806662, 3828641, 3850148, 3871201,
       3891820, 3912023, 3931826, 3951244, 3970292, 3988984, 4007333, 4025352,
       4043051, 4060443, 4077537, 4094345, 4110874, 4127134, 4143135, 4158883 >>

\* A number: an integer, or +Infinity.
Finite(v) == [infinite |-> FALSE, value |-> v]
PositiveInfinity == [infinite |-> TRUE, value |-> 0]

\* (171 - HV - CC) in units of 10^-7: HV = 5.2 * ln(linesOfCode), CC = 0.23 * cc
IndexNumerator(metrics) ==
    1710000000 - 52 * LnMicro[metrics.linesOfCode]
               - 2300000 * metrics.cyclomaticComplexity

\* The index without the lower limit of 0.
calculateMaintainabilityIndexUnclamped(metrics) ==
    IF metrics.linesOfCode = 0 THEN PositiveInfinity
    ELSE Finite((IndexNumerator(metrics) + 8550000) \div 17100000)

\* Math.round(Math.max(0, (171 - HV - CC) * 100 / 171)); Math.log(0) is
\* -Infinity, which makes the index +Infinity.
calculateMaintainabilityIndex(metrics) ==
    IF metrics.linesOfCode = 0 THEN PositiveInfinity
    ELSE LET n == IndexNumerator(metrics) IN
         Finite(IF n < 0 THEN 0 ELSE (n + 8550000) \div 17100000)

\* issues and the metrics; the recommendations are computed from the issues
\* and are not kept here.
PerformanceAnalyze(proj) ==
    LET acc == PerformanceLoop(
                   [issues |-> <<>>, cyclomaticComplexity |-> 0, linesOfCode |-> 0], proj)
        summed == [cyclomaticComplexity |-> acc.cyclomaticComplexity,
                   linesOfCode |-> acc.linesOfCode]
    IN [issues |-> acc.issues,
        metrics |-> [cyclomaticComplexity |-> acc.cyclomaticComplexity,
                     linesOfCode |-> acc.linesOfCode,
                     maintainabilityIndex |-> calculateMaintainabilityIndex(summed)]]

----------------------------------------------------------------------------
(* MemoryLeakDetector *)

CalleeIncludes(tree, n, m) ==
    LET e == GetExpression(tree, n) IN e # 0 /\ TextIncludes(tree, e, m)

detectEventListenerLeaks(f) ==
    LET tree == sources[f].tree
        Hit(n) == /\ tree[n].kind = "CallExpression"
                  /\ CalleeIncludes(tree, n, "addEventListener")
    IN MapIssues(tree, Visit(tree, {n \in 1..Len(tree) : Hit(n)}), "EventListenerLeak", "medium", f)

detectClosureLeaks(f) ==
    LET tree == sources[f].tree
        Hit(n) == /\ tree[n].kind \in {"ArrowFunction", "FunctionDeclaration"}
                  /\ \/ TextIncludes(tree, n, "this.")
                     \/ TextIncludes(tree, n, "state")
                     \/ TextIncludes(tree, n, "props")
    IN MapIssues(tree, Visit(tree, {n \in 1..Len(tree) : Hit(n)}), "ClosureLeak", "low", f)

\* A timer sweep that reports its issues as high.
detectTimerLeaksHigh(f) ==
    LET tree == sources[f].tree
        Hit(n) == /\ tree[n].kind = "CallExpression"
                  /\ \/ CalleeIncludes(tree, n, "setInterval")
                     \/ CalleeIncludes(tree, n, "setTimeout")
    IN MapIssues(tree, Visit(tree, {n \in 1..Len(tree) : Hit(n)}), "TimerLeak", "high", f)

detectTimerLeaks(f) ==
    LET tree == sources[f].tree
        Hit(n) == /\ tree[n].kind = "CallExpression"
                  /\ \/ CalleeIncludes(tree, n, "setInterval")
                     \/ CalleeIncludes(tree, n, "setTimeout")
    IN MapIssues(tree, Visit(tree, {n \in 1..Len(tree) : Hit(n)}), "TimerLeak", "medium", f)

detectObjectAccumulation(f) ==
    LET tree == sources[f].tree
        Hit(n) == /\ tree[n].kind = "PropertyAccessExpression"
                  /\ (TextIncludes(tree, n, ".push") \/ TextIncludes(tree, n, ".unshift"))
    IN MapIssues(tree, Visit(tree, {n \in 1..Len(tree) : Hit(n)}), "ObjectAccumulation", "low", f)

CountSeverity(issues, sev) ==
    Cardinality({i \in 1..Len(issues) : issues[i].severity = sev})

MediumLeakThreshold == 2

\* A severity that is medium from two medium issues on.
calculateOverallSeverityFromTwo(issues) ==
    IF CountSeverity(issues, "high") > 0 THEN "high"
    ELSE IF CountSeverity(issues, "medium") >= MediumLeakThreshold THEN "medium"
    ELSE "low"

calculateOverallSeverity(issues) ==
    IF CountSeverity(issues, "high") > 0 THEN "high"
    ELSE IF CountSeverity(issues, "medium") > MediumLeakThreshold THEN "medium"
    ELSE "low"

\* issue.suggestion, which each sweep sets with the issue's type
SuggestionOf(issue) ==
    IF issue.type = "EventListenerLeak"
    THEN "Ensure event listener is removed when component is destroyed"
    ELSE IF issue.type = "ClosureLeak"
    THEN "Be careful with closures that capture component state or props"
    ELSE IF issue.type = "TimerLeak"
    THEN "Ensure timer is cleared when component unmounts"
    ELSE "Consider implementing a cleanup mechanism for accumulated objects"

GeneralSuggestions ==
    << "Implement proper cleanup in component lifecycle methods",
       "Use weak references for cache implementations",
       "Consider using a memory profiler for detailed analysis" >>

\* Array.from(new Set(...)) over the values added in order: first occurrences
RECURSIVE SetOrder(_, _)
SetOrder(added, kept) ==
    IF added = <<>> THEN kept
    ELSE SetOrder(Tail(added),
                  IF Head(added) \in Range(kept) THEN kept ELSE Append(kept, Head(added)))

\* Suggestions collected in an array, without the Set.
generateSuggestionsInArray(issues) ==
    [i \in 1..Len(issues) |-> SuggestionOf(issues[i])] \o GeneralSuggestions

generateSuggestions(issues) ==
    SetOrder([i \in 1..Len(issues) |-> SuggestionOf(issues[i])] \o GeneralSuggestions, <<>>)

DetectFile(f) ==
    detectEventListenerLeaks(f) \o detectClosureLeaks(f)
        \o detectTimerLeaks(f) \o detectObjectAccumulation(f)

\* detect has no try block: an error in one file's sweeps rejects the whole call.
MemoryDetect(proj) ==
    IF \E i \in 1..Len(proj) : Throws(proj[i], "leaks")
    THEN [threw |-> TRUE, potentialLeaks |-> <<>>, severity |-> "low",
          suggestions |-> <<>>]
    ELSE LET issues == Flatten([i \in 1..Len(proj) |-> DetectFile(proj[i])])
         IN [threw |-> FALSE, potentialLeaks |-> issues,
             severity |-> calculateOverallSeverity(issues),
             suggestions |-> generateSuggestions(issues)]

----------------------------------------------------------------------------
(* DependencyAnalyzer.  The graph is a Map: a sequence of nodes in insertion *)
(* order, at most one per name.                                               *)

\* A resolution that keeps relative specifiers only.
resolveModulePathLocalOnly(moduleSpecifier, filePath) ==
    IF StartsWithDot(moduleSpecifier)
    THEN << Resolve(Dirname(filePath), P(FALSE, moduleSpecifier)) >>
    ELSE <<>>

\* resolveModulePath: <<target>>, or <<>> for null.  A verbatim specifier is
\* the relative path with the same segments.
resolveModulePath(moduleSpecifier, filePath) ==
    IF StartsWithDot(moduleSpecifier)
    THEN << Resolve(Dirname(filePath), P(FALSE, moduleSpecifier)) >>
    ELSE IF StartsWithAt(moduleSpecifier) \/ ~IncludesSlash(moduleSpecifier)
         THEN <<>>
         ELSE << P(FALSE, moduleSpecifier) >>

\* Map.prototype.set: an existing key keeps its place and gets the new value.
MapSet(g, node) ==
    IF \E i \in 1..Len(g) : g[i].name = node.name
    THEN [i \in 1..Len(g) |-> IF g[i].name = node.name THEN node ELSE g[i]]
    ELSE Append(g, node)

FileNode(f) ==
    LET imports == sources[f].imports
        dependencies ==
            Flatten([i \in 1..Len(imports) |-> resolveModulePath(imports[i], f)])
    IN [name |-> f, dependencies |-> dependencies, weight |-> Len(dependencies)]

\* A build that sets the entry of the first file only.
buildFirstFileOnly(g, files) ==
    IF files = <<>> THEN [graph |-> g, threw |-> FALSE]
    ELSE [graph |-> MapSet(g, FileNode(Head(files))), threw |-> FALSE]

\* buildDependencyGraph adds to the analyzer's graph; a file whose imports
\* cannot be read throws, after the entries of the files before it were set.
RECURSIVE buildDependencyGraph(_, _)
buildDependencyGraph(g, files) ==
    IF files = <<>> THEN [graph |-> g, threw |-> FALSE]
    ELSE IF Throws(Head(files), "imports") THEN [graph |-> g, threw |-> TRUE]
    ELSE buildDependencyGraph(MapSet(g, FileNode(Head(files))), Tail(files))

\* this.dependencyGraph.get(node)?.dependencies || []
GetDependencies(g, node) ==
    IF \E i \in 1..Len(g) : g[i].name = node
    THEN (CHOOSE n \in Range(g) : n.name = node).dependencies
    ELSE <<>>

\* The whole path in place of its part from dep on.
SliceWholePath(path, dep) == path

\* path.slice(path.indexOf(dep)); slice(-1) is the last element
SliceFromIndexOf(path, dep) ==
    LET i == IndexOf(path, dep) IN
    IF i = 0 THEN << Last(path) >> ELSE SubSeq(path, i, Len(path))

\* The search state: visited, recursionStack, circular; calls and hits record
\* each dfs call and each recorded cycle with the path it was taken from.
RECURSIVE dfs(_, _, _, _)
RECURSIVE dfsLoop(_, _, _, _, _)
\* A search that leaves the node in recursionStack when it returns.
dfsKeepingStack(g, node, path, st) ==
    LET entered == [st EXCEPT !.visited = @ \cup {node},
                              !.recursionStack = @ \cup {node},
                              !.calls = Append(@, [node |-> node, path |-> path,
                                                   stack |-> st.recursionStack \cup {node}])]
    IN dfsLoop(g, node, path, GetDependencies(g, node), entered)

dfs(g, node, path, st) ==
    LET entered == [st EXCEPT !.visited = @ \cup {node},
                              !.recursionStack = @ \cup {node},
                              !.calls = Append(@, [node |-> node, path |-> path,
                                                   stack |-> st.recursionStack \cup {node}])]
        after == dfsLoop(g, node, path, GetDependencies(g, node), entered)
    IN [after EXCEPT !.recursionStack = @ \ {node}]

dfsLoop(g, node, path, deps, st) ==
    IF deps = <<>> THEN st
    ELSE LET dep == Head(deps)
             next ==
                 IF dep \notin st.visited
                 THEN dfs(g, dep, Append(path, dep), st)
                 ELSE IF dep \in st.recursionStack
                      THEN [st EXCEPT
                               !.circular = Append(@, SliceFromIndexOf(path, dep)),
                               !.hits = Append(@, [dep |-> dep, node |-> node,
                                                   path |-> path])]
                      ELSE st
         IN dfsLoop(g, node, path, Tail(deps), next)

\* A detection that searches from the first entry only.
detectLoopFirstOnly(g, i, st) ==
    IF i > Len(g) THEN st ELSE dfs(g, g[i].name, << g[i].name >>, st)

\* A detection that searches from every entry, visited or not.
RECURSIVE detectLoopRevisiting(_, _, _)
detectLoopRevisiting(g, i, st) ==
    IF i > Len(g) THEN st
    ELSE detectLoopRevisiting(g, i + 1, dfs(g, g[i].name, << g[i].name >>, st))

RECURSIVE detectLoop(_, _, _)
detectLoop(g, i, st) ==
    IF i > Len(g) THEN st
    ELSE IF g[i].name \notin st.visited
         THEN detectLoop(g, i + 1, dfs(g, g[i].name, << g[i].name >>, st))
         ELSE detectLoop(g, i + 1, st)

detectCircularDependencies(g) ==
    detectLoop(g, 1, [visited |-> {}, recursionStack |-> {}, circular |-> <<>>,
                      calls |-> <<>>, hits |-> <<>>])

RECURSIVE MaxSeq(_)
MaxSeq(s) == IF s = <<>> THEN 0 ELSE Max2(Head(s), MaxSeq(Tail(s)))

\* Metrics whose maximum is the count of the last entry.
calculateMetricsLastCount(g) ==
    LET counts == [i \in 1..Len(g) |-> Len(g[i].dependencies)] IN
    [totalFiles |-> Len(g),
     averageDependencies |->
         IF Len(g) > 0 THEN [num |-> SumSeq(counts), den |-> Len(g)]
         ELSE [num |-> 0, den |-> 1],
     maxDependencies |-> IF counts = <<>> THEN 0 ELSE Last(counts)]

\* averageDependencies is the quotient num / den
calculateMetrics(g) ==
    LET counts == [i \in 1..Len(g) |-> Len(g[i].dependencies)] IN
    [totalFiles |-> Len(g),
     averageDependencies |->
         IF Len(g) > 0 THEN [num |-> SumSeq(counts), den |-> Len(g)]
         ELSE [num |-> 0, den |-> 1],
     maxDependencies |-> MaxSeq(counts)]

exportGraph(g) ==
    [i \in 1..Len(g) |-> [id |-> g[i].name, dependencies |-> g[i].dependencies,
                          weight |-> g[i].weight]]

NoDependencies ==
    [graph |-> <<>>, circularDependencies |-> <<>>, hits |-> <<>>,
     calls |-> <<>>, recursionStack |-> {},
     metrics |-> calculateMetrics(<<>>)]

\* analyze(project) on an analyzer whose graph is g: the graph afterwards,
\* whether it threw, and the result.
DependencyAnalyze(g, proj) ==
    LET built == buildDependencyGraph(g, proj)
        search == detectCircularDependencies(built.graph)
    IN IF built.threw
       THEN [graph |-> built.graph, threw |-> TRUE, result |-> NoDependencies]
       ELSE [graph |-> built.graph, threw |-> FALSE,
             result |-> [graph |-> exportGraph(built.graph),
                         circularDependencies |-> search.circular,
                         hits |-> search.hits,
                         calls |-> search.calls,
                         recursionStack |-> search.recursionStack,
                         metrics |-> calculateMetrics(built.graph)]]

----------------------------------------------------------------------------
(* CodeAnalyzer *)

HighHealthThreshold == 10

\* A summary whose total also counts the dependency cycles.
generateSummaryWithCycles(results) ==
    LET totalIssues == Len(results.performance.issues)
                       + Len(results.memoryLeaks.potentialLeaks)
                       + Len(results.dependencies.circularDependencies)
        criticalIssues == CountSeverity(results.performance.issues, "high")
                          + CountSeverity(results.memoryLeaks.potentialLeaks, "high")
    IN [totalIssues |-> totalIssues,
        criticalIssues |-> criticalIssues,
        overallHealth |-> IF criticalIssues > 0 THEN "poor"
                          ELSE IF totalIssues > HighHealthThreshold THEN "moderate"
                          ELSE "good"]

\* A summary that tests the total before the critical issues.
generateSummaryTotalFirst(results) ==
    LET totalIssues == Len(results.performance.issues)
                       + Len(results.memoryLeaks.potentialLeaks)
        criticalIssues == CountSeverity(results.performance.issues, "high")
                          + CountSeverity(results.memoryLeaks.potentialLeaks, "high")
    IN [totalIssues |-> totalIssues,
        criticalIssues |-> criticalIssues,
        overallHealth |-> IF totalIssues > HighHealthThreshold THEN "moderate"
                          ELSE IF criticalIssues > 0 THEN "poor"
                          ELSE "good"]

\* A summary whose critical issues are the high performance issues only.
generateSummaryPerformanceOnly(results) ==
    LET totalIssues == Len(results.performance.issues)
                       + Len(results.memoryLeaks.potentialLeaks)
        criticalIssues == CountSeverity(results.performance.issues, "high")
    IN [totalIssues |-> totalIssues,
        criticalIssues |-> criticalIssues,
        overallHealth |-> IF criticalIssues > 0 THEN "poor"
                          ELSE IF totalIssues > HighHealthThreshold THEN "moderate"
                          ELSE "good"]

generateSummary(results) ==
    LET totalIssues == Len(results.performance.issues)
                       + Len(results.memoryLeaks.potentialLeaks)
        criticalIssues == CountSeverity(results.performance.issues, "high")
                          + CountSeverity(results.memoryLeaks.potentialLeaks, "high")
    IN [totalIssues |-> totalIssues,
        criticalIssues |-> criticalIssues,
        overallHealth |-> IF criticalIssues > 0 THEN "poor"
                          ELSE IF totalIssues > HighHealthThreshold THEN "moderate"
                          ELSE "good"]

NoPerformance == PerformanceAnalyze(<<>>)
NoMemory == [threw |-> FALSE, potentialLeaks |-> <<>>, severity |-> "low",
             suggestions |-> <<>>]
NoSummary == [totalIssues |-> 0, criticalIssues |-> 0, overallHealth |-> "none"]
Pending == [status |-> "pending", error |-> "none", summary |-> NoSummary]

\* A catch block that throws a new error in place of the one it caught.
RethrowWrapped(error) == "AnalysisFailed"

\* catch (error) { logger.error(...); throw error; }
Rethrow(error) == error

Rejected(error) == [status |-> "rejected", error |-> Rethrow(error), summary |-> NoSummary]

Finished(c) == pc[c] \in {"done", "failed"}

\* The paths callers pass: '/w/p1', '/w/p2', '/w/missing', 'p1', '.'
ProjectPaths ==
    {P(TRUE, <<"w", "p1">>), P(TRUE, <<"w", "p2">>), P(TRUE, <<"w", "missing">>),
     P(FALSE, <<"p1">>), Dot}

\* analyzeProject(p), up to the manifest search.  Calls are made one after
\* the other.
Begin(c, p) ==
    /\ pc[c] = "idle"
    /\ IF c = 1 THEN TRUE ELSE Finished(c - 1)
    /\ projectPath' = [projectPath EXCEPT ![c] = p]
    /\ IF ~ExistsSync(p)
       THEN /\ raised' = [raised EXCEPT ![c] = "ProjectNotFound"]
            /\ outcome' = [outcome EXCEPT ![c] = Rejected("ProjectNotFound")]
            /\ pc' = [pc EXCEPT ![c] = "failed"]
            /\ UNCHANGED searchVars
       ELSE /\ currentPath' = [currentPath EXCEPT ![c] = p]
            /\ pc' = [pc EXCEPT ![c] = "search"]
            /\ UNCHANGED <<raised, outcome, iteration, tsconfigPath>>
    /\ UNCHANGED <<env, analyzerVars, resultVars, invoked>>

\* One iteration of findTsConfig's while loop, or its exit.
FindStep(c) ==
    /\ pc[c] = "search"
    /\ LET cur == currentPath[c]
           candidate == Join(cur, "tsconfig.json")
       IN IF cur = ParseRoot(cur)
          THEN /\ raised' = [raised EXCEPT ![c] = "ConfigNotFound"]
               /\ outcome' = [outcome EXCEPT ![c] = Rejected("ConfigNotFound")]
               /\ pc' = [pc EXCEPT ![c] = "failed"]
               /\ UNCHANGED searchVars
          ELSE IF ExistsSync(candidate)
          THEN /\ tsconfigPath' = [tsconfigPath EXCEPT ![c] = candidate]
               /\ pc' = [pc EXCEPT ![c] = "load"]
               /\ UNCHANGED <<raised, outcome, currentPath, iteration>>
          ELSE /\ currentPath' = [currentPath EXCEPT ![c] = Dirname(cur)]
               /\ iteration' = [iteration EXCEPT ![c] = (@ + 1) % IterationWrap]
               /\ UNCHANGED <<raised, outcome, pc, tsconfigPath>>
    /\ UNCHANGED <<env, analyzerVars, resultVars, invoked, projectPath>>

\* this.project = new Project(...); await this.performanceAnalyzer.analyze(this.project)
RunPerformance(c) ==
    /\ pc[c] = "load"
    /\ project' = LoadProject(tsconfigPath[c])
    /\ performanceResults' = [performanceResults EXCEPT ![c] = PerformanceAnalyze(project')]
    /\ invoked' = [invoked EXCEPT ![c] = Append(@, "performance")]
    /\ pc' = [pc EXCEPT ![c] = "awaitPerformance"]
    /\ UNCHANGED <<env, dependencyGraph, projectPath, searchVars, memoryResults,
                   dependencyResults, raised, outcome>>

\* await this.memoryLeakDetector.detect(this.project).  detect is async: an
\* error thrown inside it rejects its promise, and the call stays suspended at
\* the await until Catch resumes it.
RunMemory(c) ==
    /\ pc[c] = "awaitPerformance"
    /\ invoked' = [invoked EXCEPT ![c] = Append(@, "memory")]
    /\ LET r == MemoryDetect(project) IN
       IF r.threw
       THEN /\ raised' = [raised EXCEPT ![c] = "FileError"]
            /\ pc' = [pc EXCEPT ![c] = "threw"]
            /\ UNCHANGED <<memoryResults, outcome>>
       ELSE /\ memoryResults' = [memoryResults EXCEPT ![c] = r]
            /\ pc' = [pc EXCEPT ![c] = "awaitMemory"]
            /\ UNCHANGED <<raised, outcome>>
    /\ UNCHANGED <<env, analyzerVars, projectPath, searchVars, performanceResults,
                   dependencyResults>>

\* await this.dependencyAnalyzer.analyze(this.project): buildDependencyGraph.
\* analyze is async: an error thrown inside it rejects its promise, and the
\* call stays suspended at the await until Catch resumes it.
RunDependencies(c) ==
    /\ pc[c] = "awaitMemory"
    /\ invoked' = [invoked EXCEPT ![c] = Append(@, "dependencies")]
    /\ LET built == buildDependencyGraph(dependencyGraph, project) IN
       /\ dependencyGraph' = built.graph
       /\ IF built.threw
          THEN /\ raised' = [raised EXCEPT ![c] = "FileError"]
               /\ pc' = [pc EXCEPT ![c] = "threw"]
               /\ UNCHANGED outcome
          ELSE /\ pc' = [pc EXCEPT ![c] = "detectCycles"]
               /\ UNCHANGED <<raised, outcome>>
    /\ UNCHANGED <<env, project, projectPath, searchVars, resultVars>>

\* analyze: const circularDependencies = this.detectCircularDependencies()
DetectCycles(c) ==
    /\ pc[c] = "detectCycles"
    /\ LET search == detectCircularDependencies(dependencyGraph) IN
       dependencyResults' = [dependencyResults EXCEPT ![c] =
           [graph |-> <<>>, circularDependencies |-> search.circular,
            hits |-> search.hits, calls |-> search.calls,
            recursionStack |-> search.recursionStack,
            metrics |-> calculateMetrics(<<>>)]]
    /\ pc' = [pc EXCEPT ![c] = "calculateMetrics"]
    /\ UNCHANGED <<env, analyzerVars, projectPath, searchVars, performanceResults,
                   memoryResults, invoked, raised, outcome>>

\* analyze: const metrics = this.calculateMetrics(); return { graph: this.exportGraph(), ... }
CalculateMetrics(c) ==
    /\ pc[c] = "calculateMetrics"
    /\ dependencyResults' = [dependencyResults EXCEPT ![c] =
           [@ EXCEPT !.metrics = calculateMetrics(dependencyGraph),
                     !.graph = exportGraph(dependencyGraph)]]
    /\ pc' = [pc EXCEPT ![c] = "awaitDependencies"]
    /\ UNCHANGED <<env, analyzerVars, projectPath, searchVars, performanceResults,
                   memoryResults, invoked, raised, outcome>>

\* The call resumes at an await whose promise was rejected:
\* catch (error) { logger.error('Analysis failed:', error); throw error; }
Catch(c) ==
    /\ pc[c] = "threw"
    /\ outcome' = [outcome EXCEPT ![c] = Rejected(raised[c])]
    /\ pc' = [pc EXCEPT ![c] = "failed"]
    /\ UNCHANGED <<env, analyzerVars, projectPath, searchVars, resultVars, invoked, raised>>

\* generateSummary and the return of the result (the timestamp is left out)
Finish(c) ==
    /\ pc[c] = "awaitDependencies"
    /\ outcome' = [outcome EXCEPT ![c] =
           [status |-> "resolved", error |-> "none",
            summary |-> generateSummary([performance |-> performanceResults[c],
                                         memoryLeaks |-> memoryResults[c],
                                         dependencies |-> dependencyResults[c]])]]
    /\ pc' = [pc EXCEPT ![c] = "done"]
    /\ UNCHANGED <<env, analyzerVars, projectPath, searchVars, resultVars, invoked, raised>>

Next ==
    \E c \in Calls :
        \/ \E p \in ProjectPaths : Begin(c, p)
        \/ FindStep(c)
        \/ RunPerformance(c)
        \/ RunMemory(c)
        \/ RunDependencies(c)
        \/ DetectCycles(c)
        \/ CalculateMetrics(c)
        \/ Catch(c)
        \/ Finish(c)

\* The steps of the calls when no file's analysis raises an error: no detector
\* promise is rejected, and Catch has nothing to resume.
NextWithoutFault ==
    \E c \in Calls :
        \/ \E p \in ProjectPaths : Begin(c, p)
        \/ FindStep(c)
        \/ RunPerformance(c)
        \/ RunMemory(c)
        \/ RunDependencies(c)
        \/ DetectCycles(c)
        \/ CalculateMetrics(c)
        \/ Finish(c)

----------------------------------------------------------------------------
(* Initial states *)

Dir1 == P(TRUE, <<"w", "p1">>)
Dir2 == P(TRUE, <<"w", "p2">>)

\* A value of the command line tools: a string, as its words, or an object.
Str(words) == [type |-> "string", text |-> words]
Undefined == [type |-> "undefined", text |-> <<>>]

\* No SmartCommandManager and no DeploymentManager is in use.
NoSmart == [history |-> <<>>, aliases |-> <<>>, executed |-> 0, added |-> 0,
            commandName |-> Undefined, outcome |-> "none"]
NoDeployment == [pc |-> "none"]

\* No function is applied on its own.
NoProbe == [fn |-> "none", metrics |-> [cyclomaticComplexity |-> 0, linesOfCode |-> 0],
            issues |-> <<>>, performanceIssues |-> <<>>, graph |-> <<>>,
            done |-> FALSE,
            maintainabilityIndex |-> Finite(0), severity |-> "none",
            dependencyMetrics |-> calculateMetrics(<<>>), summary |-> NoSummary]

InitAnalyzer ==
    /\ project = <<>>
    /\ dependencyGraph = <<>>
    /\ pc = [c \in Calls |-> "idle"]
    /\ projectPath = [c \in Calls |-> EmptyString]
    /\ currentPath = [c \in Calls |-> EmptyString]
    /\ iteration = [c \in Calls |-> 0]
    /\ tsconfigPath = [c \in Calls |-> EmptyString]
    /\ performanceResults = [c \in Calls |-> NoPerformance]
    /\ memoryResults = [c \in Calls |-> NoMemory]
    /\ dependencyResults = [c \in Calls |-> NoDependencies]
    /\ invoked = [c \in Calls |-> <<>>]
    /\ raised = [c \in Calls |-> "none"]
    /\ outcome = [c \in Calls |-> Pending]

FileSet == Range(SourceFiles)

WithImports(contents, imports) ==
    [f \in FileSet |-> [imports |-> imports[f], tree |-> contents[f].tree,
                        lines |-> contents[f].lines]]

\* a.ts imports './b' and 'fs'; c.ts imports '../p1/a.ts'
DefaultImports ==
    [f \in FileSet |-> IF f = FileA THEN << <<".", "b">>, <<"fs">> >>
                       ELSE IF f = FileC THEN << <<"..", "p1", "a.ts">> >>
                       ELSE <<>>]

\* a.ts imports './b.ts', b.ts imports './a.ts' and '../p2/c.ts', c.ts imports './c.ts'
CyclicImports ==
    [f \in FileSet |-> IF f = FileA THEN << <<".", "b.ts">> >>
                       ELSE IF f = FileB
                            THEN << <<".", "a.ts">>, <<"..", "p2", "c.ts">> >>
                            ELSE << <<".", "c.ts">> >>]

Layouts == {{Dir1, Dir2}, {Cwd}, {Dir1}}

\* Any contents and no failing file, or one failing step in one file of a
\* project whose files all have the same contents.
Init ==
    /\ tsconfigs \in Layouts
    /\ \E imports \in {DefaultImports, CyclicImports} :
        \/ /\ fault = NoFault
           /\ \E contents \in [FileSet -> Contents] :
                 sources = WithImports(contents, imports)
        \/ /\ fault \in [file : FileSet, step : FaultSteps]
           /\ \E k \in Contents :
                 sources = WithImports([f \in FileSet |-> k], imports)
    /\ InitAnalyzer
    /\ probe = NoProbe
    /\ smart = NoSmart
    /\ deployment = NoDeployment

Spec == Init /\ [][Next]_vars

\* The import lists a file can have.
ImportChoices(f) ==
    IF f = FileA
    THEN { <<>>, << <<".", "b">> >>, << <<".", "b.ts">> >>, << <<".", "a.ts">> >>,
           << <<".", "b.ts">>, <<"..", "p2", "c.ts">> >>,
           << <<"lodash", "fp">>, <<".", "b.ts">> >> }
    ELSE IF f = FileB
    THEN { <<>>, << <<".", "a">> >>, << <<".", "a.ts">> >>, << <<"..", "p2", "c.ts">> >>,
           << <<"..", "p2", "c.ts">>, <<".", "a.ts">> >>,
           << <<"@scope", "pkg">>, <<"fs">> >> }
    ELSE { <<>>, << <<"..", "p1", "a.ts">> >>, << <<"..", "p1", "b.ts">> >>,
           << <<".", "c.ts">> >>,
           << <<"..", "p1", "b.ts">>, <<"..", "p1", "a.ts">> >> }

\* Any import lists, over files without issues and without failing steps.
InitDep ==
    /\ tsconfigs \in {{Dir1, Dir2}, {Cwd}}
    /\ fault = NoFault
    /\ \E imports \in [FileSet -> UNION {ImportChoices(f) : f \in FileSet}] :
          /\ \A f \in FileSet : imports[f] \in ImportChoices(f)
          /\ sources = WithImports([f \in FileSet |-> Content(TreePlain, 3)], imports)
    /\ InitAnalyzer
    /\ probe = NoProbe
    /\ smart = NoSmart
    /\ deployment = NoDeployment

DepSpec == InitDep /\ [][NextWithoutFault]_vars

\* Any placement of tsconfig.json files.
InitFind ==
    /\ tsconfigs \in SUBSET Directories
    /\ fault = NoFault
    /\ sources = WithImports([f \in FileSet |-> Content(TreePlain, 3)], DefaultImports)
    /\ InitAnalyzer
    /\ probe = NoProbe
    /\ smart = NoSmart
    /\ deployment = NoDeployment

\* findTsConfig is synchronous code: once entered, its loop keeps executing.
FindSpec == InitFind /\ [][NextWithoutFault]_vars /\ WF_vars(\E c \in Calls : FindStep(c))

----------------------------------------------------------------------------
(* Properties *)

\* The project a call loaded, and the files of it other than f.
ProjectOf(c) == LoadProject(tsconfigPath[c])
Without(files, f) == SelectSeq(files, LAMBDA g : g # f)
Resolved(c) == outcome[c].status = "resolved"
IssuesOf(c) == performanceResults[c].issues \o memoryResults[c].potentialLeaks
HasHigh(c) == \E i \in 1..Len(IssuesOf(c)) : IssuesOf(c)[i].severity = "high"

\* C1: a first call on a project of exactly a.ts (importing './b') and b.ts
\* (importing './a') reports exactly one cycle, a.ts followed by b.ts.
C1_TwoFileCycle ==
    ( /\ pc[1] = "done"
      /\ ProjectOf(1) = <<FileA, FileB>>
      /\ sources[FileA].imports = << <<".", "b">> >>
      /\ sources[FileB].imports = << <<".", "a">> >> )
    => dependencyResults[1].circularDependencies = << <<FileA, FileB>> >>

\* C2: in every result, totalIssues is the number of performance issues plus
\* the number of potential leaks, whatever the number of dependency cycles.
C2_TotalIssues ==
    \A c \in Calls : Resolved(c) =>
        outcome[c].summary.totalIssues =
            Len(performanceResults[c].issues) + Len(memoryResults[c].potentialLeaks)

C2_Witness ==
    \E c \in Calls :
        /\ Resolved(c)
        /\ Len(performanceResults[c].issues) > 0
        /\ Len(memoryResults[c].potentialLeaks) > 0
        /\ Len(dependencyResults[c].circularDependencies) > 0

\* C3: overallHealth is poor exactly when some issue is high, moderate exactly
\* when none is high and there are more than 10 issues, good exactly when none
\* is high and there are at most 10.
C3_OverallHealth ==
    \A c \in Calls : Resolved(c) =>
        LET health == outcome[c].summary.overallHealth
            total == Len(IssuesOf(c))
        IN /\ health = "poor" <=> HasHigh(c)
           /\ health = "moderate" <=> (~HasHigh(c) /\ total > 10)
           /\ health = "good" <=> (~HasHigh(c) /\ total <= 10)

C3_Witness ==
    \E c \in Calls :
        /\ Resolved(c)
        /\ outcome[c].summary.overallHealth = "moderate"
        /\ Len(IssuesOf(c)) = 11

\* C4: the dependencies part of every result is what a new analyzer returns
\* for the project of that call.
C4_FreshGraph ==
    \A c \in Calls : pc[c] = "done" =>
        LET fresh == DependencyAnalyze(<<>>, ProjectOf(c)).result IN
        /\ dependencyResults[c].graph = fresh.graph
        /\ dependencyResults[c].circularDependencies = fresh.circularDependencies
        /\ dependencyResults[c].metrics.totalFiles = fresh.metrics.totalFiles

\* C5: a call that found its manifest returns a result, also when the
\* analysis of one file raises an error in a detector.
C5_FileErrorAbsorbed ==
    \A c \in Calls :
        (Finished(c) /\ tsconfigPath[c] # EmptyString) => Resolved(c)

\* C6: a file whose performance analysis raised an error contributes no issue
\* and nothing to the metrics: the result is that of the project without it.
C6_FailedFileExcluded ==
    \A c \in Calls :
        ( /\ pc[c] = "done"
          /\ fault.step \in {"loops", "memory", "complexity", "lines"}
          /\ fault.file \in Range(ProjectOf(c)) )
        => /\ \A i \in 1..Len(performanceResults[c].issues) :
                  performanceResults[c].issues[i].file # fault.file
           /\ performanceResults[c].metrics =
                  PerformanceAnalyze(Without(ProjectOf(c), fault.file)).metrics

\* C7: a missing root is rejected with ProjectNotFound before the manifest
\* search starts, an existing root without manifest with ConfigNotFound; no
\* detector has run then, and the caller receives the error that was raised.
C7_FatalErrors ==
    \A c \in Calls :
        /\ (pc[c] # "idle" /\ ~ExistsSync(projectPath[c]))
               => /\ outcome[c] = [status |-> "rejected", error |-> "ProjectNotFound",
                                   summary |-> NoSummary]
                  /\ currentPath[c] = EmptyString /\ tsconfigPath[c] = EmptyString
        /\ (pc[c] = "failed" /\ ExistsSync(projectPath[c]) /\ tsconfigPath[c] = EmptyString)
               => outcome[c].error = "ConfigNotFound"
        /\ raised[c] \in {"ProjectNotFound", "ConfigNotFound"} => invoked[c] = <<>>
        /\ pc[c] = "failed" => (outcome[c].status = "rejected" /\ outcome[c].error = raised[c]
                                /\ raised[c] # "none")

C7_Witness ==
    \E c, d \in Calls :
        /\ outcome[c].error = "ProjectNotFound"
        /\ outcome[d].error = "ConfigNotFound" /\ ExistsSync(projectPath[d])

\* C8: the manifest search of every call ends: it finds a manifest or reports
\* that there is none.
C8_SearchTerminates ==
    \A c \in Calls : (pc[c] = "search") ~> (pc[c] # "search")

\* The directories from the project root up to the file system root.
RECURSIVE Chain(_)
Chain(dir) == IF dir.segs = <<>> THEN << dir >> ELSE << dir >> \o Chain(P(TRUE, Front(dir.segs)))
ChainOf(c) == Chain(Resolve(Cwd, projectPath[c]))
Closest(c) == CHOOSE i \in 1..Len(ChainOf(c)) :
                 /\ ChainOf(c)[i] \in tsconfigs
                 /\ \A j \in 1..(i - 1) : ChainOf(c)[j] \notin tsconfigs

\* C9: the search returns the tsconfig.json of the closest directory of the
\* chain that has one, and reports none only when no directory of the chain,
\* the file system root included, has one.
C9_ClosestManifest ==
    \A c \in Calls :
        /\ tsconfigPath[c] # EmptyString =>
              /\ \E d \in Range(ChainOf(c)) : d \in tsconfigs
              /\ Resolve(Cwd, tsconfigPath[c]) = Join(ChainOf(c)[Closest(c)], "tsconfig.json")
        /\ outcome[c].error = "ConfigNotFound" =>
              \A d \in Range(ChainOf(c)) : d \notin tsconfigs

\* Node a of the exported graph lists b among its dependencies.
Edge(graph, a, b) ==
    \E i \in 1..Len(graph) : graph[i].id = a /\ b \in Range(graph[i].dependencies)

\* C10: every reported cycle is a non-empty sequence in which each element
\* depends on the next and the last on the first, and is the part of the
\* search path from the first occurrence of the revisited node on (in every
\* result that analyze has returned).
C10_GenuineCycles ==
    \A c \in Calls : pc[c] # "calculateMetrics" =>
        LET r == dependencyResults[c] IN
        /\ Len(r.hits) = Len(r.circularDependencies)
        /\ \A k \in 1..Len(r.circularDependencies) :
              LET cycle == r.circularDependencies[k]
                  hit == r.hits[k]
                  first == IndexOf(hit.path, hit.dep)
              IN /\ cycle # <<>>
                 /\ \A i \in 1..(Len(cycle) - 1) : Edge(r.graph, cycle[i], cycle[i + 1])
                 /\ Edge(r.graph, Last(cycle), cycle[1])
                 /\ first > 0
                 /\ cycle = SubSeq(hit.path, first, Len(hit.path))

C10_Witness ==
    \E c \in Calls : \E k \in 1..Len(dependencyResults[c].circularDependencies) :
        /\ pc[c] = "done"
        /\ Len(dependencyResults[c].circularDependencies[k]) >= 2
        /\ Len(dependencyResults[c].hits[k].path)
               > Len(dependencyResults[c].circularDependencies[k])

----------------------------------------------------------------------------
(* Module resolution *)

\* The edge the three cases give for one specifier of file f: <<target>> or <<>>.
CaseEdge(spec, f) ==
    IF Head(spec) \in {".", ".."}
    THEN << P(TRUE, NormalizeSegs(TRUE, <<>>, Front(f.segs) \o spec)) >>
    ELSE IF Head(spec) = "@scope" \/ Len(spec) = 1 THEN <<>>
    ELSE << P(FALSE, spec) >>

CaseEdges(f) ==
    Flatten([i \in 1..Len(sources[f].imports) |-> CaseEdge(sources[f].imports[i], f)])

\* C11: every graph entry lists, in import order, the edges the three cases
\* give (relative: resolved against the file's directory; scoped or without
\* '/': none; otherwise the specifier itself), and its weight is their number.
C11_ThreeCases ==
    \A i \in 1..Len(dependencyGraph) :
        LET node == dependencyGraph[i] IN
        /\ node.name \in FileSet
        /\ node.dependencies = CaseEdges(node.name)
        /\ node.weight = Len(node.dependencies)

C11_Witness ==
    \E i, j \in 1..Len(dependencyGraph) :
        /\ \E d \in Range(dependencyGraph[i].dependencies) : ~d.abs
        /\ \E d \in Range(dependencyGraph[i].dependencies) : d.abs
        /\ sources[dependencyGraph[j].name].imports # <<>>
        /\ dependencyGraph[j].dependencies = <<>>

\* C12: every dependency entry comes from a relative import of its file; no
\* package import produces one.
C12_LocalEdgesOnly ==
    \A i \in 1..Len(dependencyGraph) :
        LET node == dependencyGraph[i]
            imports == sources[node.name].imports
        IN \A d \in Range(node.dependencies) :
              \E k \in 1..Len(imports) :
                  /\ Head(imports[k]) \in {".", ".."}
                  /\ CaseEdge(imports[k], node.name) = << d >>

----------------------------------------------------------------------------
(* Phases of the dependency analysis *)

HasEntry(g, f) == \E i \in 1..Len(g) : g[i].name = f

InSearchOrMetrics(c) == pc[c] \in {"detectCycles", "calculateMetrics"}

\* C13: cycle detection starts only after every source file of the project
\* has its graph entry, and the graph does not change while cycle detection
\* and metric calculation run.
C13_BuildBarrier ==
    /\ [](\A c \in Calls : InSearchOrMetrics(c) =>
              \A f \in Range(project) : HasEntry(dependencyGraph, f))
    /\ [][\A c \in Calls : InSearchOrMetrics(c) => dependencyGraph' = dependencyGraph]_vars

C13_Witness ==
    \E c \in Calls :
        /\ pc[c] = "calculateMetrics"
        /\ Len(project) > 1
        /\ dependencyResults[c].circularDependencies # <<>>

----------------------------------------------------------------------------
(* The three detectors run in any order *)

\* this.project = new Project({ tsConfigFilePath })
LoadStep(c) ==
    /\ pc[c] = "load"
    /\ project' = LoadProject(tsconfigPath[c])
    /\ pc' = [pc EXCEPT ![c] = "detectors"]
    /\ UNCHANGED <<env, dependencyGraph, projectPath, searchVars, resultVars,
                   invoked, raised, outcome>>

CanRun(c, detector) ==
    /\ pc[c] = "detectors"
    /\ detector \notin Range(invoked[c])

AfterDetector(c) == IF Len(invoked[c]) = 2 THEN "awaitDependencies" ELSE "detectors"

\* performanceAnalyzer.analyze(this.project)
AnyPerformance(c) ==
    /\ CanRun(c, "performance")
    /\ performanceResults' = [performanceResults EXCEPT ![c] = PerformanceAnalyze(project)]
    /\ invoked' = [invoked EXCEPT ![c] = Append(@, "performance")]
    /\ pc' = [pc EXCEPT ![c] = AfterDetector(c)]
    /\ UNCHANGED <<env, analyzerVars, projectPath, searchVars, memoryResults,
                   dependencyResults, raised, outcome>>

\* A leak detector that also removes the source files from the shared project.
AnyMemoryClearingProject(c) ==
    /\ CanRun(c, "memory")
    /\ invoked' = [invoked EXCEPT ![c] = Append(@, "memory")]
    /\ project' = <<>>
    /\ memoryResults' = [memoryResults EXCEPT ![c] = MemoryDetect(project)]
    /\ pc' = [pc EXCEPT ![c] = AfterDetector(c)]
    /\ UNCHANGED <<env, dependencyGraph, projectPath, searchVars, performanceResults,
                   dependencyResults, raised, outcome>>

\* memoryLeakDetector.detect(this.project)
AnyMemory(c) ==
    /\ CanRun(c, "memory")
    /\ invoked' = [invoked EXCEPT ![c] = Append(@, "memory")]
    /\ LET r == MemoryDetect(project) IN
       IF r.threw
       THEN /\ raised' = [raised EXCEPT ![c] = "FileError"]
            /\ pc' = [pc EXCEPT ![c] = "threw"]
            /\ UNCHANGED <<memoryResults, outcome>>
       ELSE /\ memoryResults' = [memoryResults EXCEPT ![c] = r]
            /\ pc' = [pc EXCEPT ![c] = AfterDetector(c)]
            /\ UNCHANGED <<raised, outcome>>
    /\ UNCHANGED <<env, analyzerVars, projectPath, searchVars, performanceResults,
                   dependencyResults>>

\* dependencyAnalyzer.analyze(this.project), which has no await inside
AnyDependencies(c) ==
    /\ CanRun(c, "dependencies")
    /\ invoked' = [invoked EXCEPT ![c] = Append(@, "dependencies")]
    /\ LET r == DependencyAnalyze(dependencyGraph, project) IN
       /\ dependencyGraph' = r.graph
       /\ IF r.threw
          THEN /\ raised' = [raised EXCEPT ![c] = "FileError"]
               /\ pc' = [pc EXCEPT ![c] = "threw"]
               /\ UNCHANGED <<dependencyResults, outcome>>
          ELSE /\ dependencyResults' = [dependencyResults EXCEPT ![c] = r.result]
               /\ pc' = [pc EXCEPT ![c] = AfterDetector(c)]
               /\ UNCHANGED <<raised, outcome>>
    /\ UNCHANGED <<env, project, projectPath, searchVars, performanceResults,
                   memoryResults>>

OrderNext ==
    \E c \in Calls :
        \/ \E p \in ProjectPaths : Begin(c, p)
        \/ FindStep(c)
        \/ LoadStep(c)
        \/ AnyPerformance(c)
        \/ AnyMemory(c)
        \/ AnyDependencies(c)
        \/ Catch(c)
        \/ Finish(c)

\* Two projects; files with issues and leaks, or one failing step in one file.
InitOrder ==
    /\ tsconfigs = {Dir1, Dir2}
    /\ \E imports \in {DefaultImports, CyclicImports} :
        \/ /\ fault = NoFault
           /\ \E contents \in [FileSet -> {Content(TreeNested, 7), Content(TreeBusy, 5)}] :
                 sources = WithImports(contents, imports)
        \/ /\ fault \in [file : FileSet, step : {"loops", "leaks", "imports"}]
           /\ sources = WithImports([f \in FileSet |-> Content(TreeBusy, 5)], imports)
    /\ InitAnalyzer
    /\ probe = NoProbe
    /\ smart = NoSmart
    /\ deployment = NoDeployment

OrderSpec == InitOrder /\ [][OrderNext]_vars

\* The analyzer's graph when call c begins: what the earlier calls that
\* reached the dependency grapher left in it.
RECURSIVE GraphBefore(_)
GraphBefore(c) ==
    IF c = 1 THEN <<>>
    ELSE IF "dependencies" \in Range(invoked[c - 1])
         THEN buildDependencyGraph(GraphBefore(c - 1), ProjectOf(c - 1)).graph
         ELSE GraphBefore(c - 1)

\* The result of the detectors run one after the other in the order of
\* analyzeProject.
InOrder(c) ==
    [performance |-> PerformanceAnalyze(ProjectOf(c)),
     memoryLeaks |-> MemoryDetect(ProjectOf(c)),
     dependencies |-> DependencyAnalyze(GraphBefore(c), ProjectOf(c)).result]

\* C14: whatever the order in which the three detectors ran, a resolved call
\* has the result that running them in the order of analyzeProject gives.
C14_OrderIndependent ==
    \A c \in Calls : pc[c] = "done" =>
        /\ performanceResults[c] = InOrder(c).performance
        /\ memoryResults[c] = InOrder(c).memoryLeaks
        /\ dependencyResults[c] = InOrder(c).dependencies
        /\ outcome[c].summary = generateSummary(InOrder(c))

C14_Witness ==
    \E c \in Calls :
        /\ pc[c] = "done"
        /\ invoked[c] = <<"dependencies", "memory", "performance">>
        /\ performanceResults[c].issues # <<>>
        /\ memoryResults[c].potentialLeaks # <<>>
        /\ dependencyResults[c].circularDependencies # <<>>

----------------------------------------------------------------------------
(* Loops, array literals and function complexity *)

NA(p, l, e) == [kind |-> "ArrayLiteralExpression", parent |-> p, line |-> l,
                marks |-> {}, elems |-> e]

\* function f() { for (..) { for (..) {} } }
TreeForInFor ==
    << N("FunctionDeclaration", 0, 1, {}),
       N("ForStatement", 1, 2, {}),
       N("ForStatement", 2, 3, {}) >>

\* function f() { for (..) { for (k in o) { for (x of xs) {} } } }
TreeTripleFor ==
    << N("FunctionDeclaration", 0, 1, {}),
       N("ForStatement", 1, 2, {}),
       N("ForInStatement", 2, 3, {}),
       N("ForOfStatement", 3, 4, {}) >>

\* function f() { while (..) { for (..) {} } }
TreeForInWhile ==
    << N("FunctionDeclaration", 0, 1, {}),
       N("WhileStatement", 1, 2, {}),
       N("ForStatement", 2, 3, {}) >>

\* function f() { for (..) { do {} while (..) } }
TreeDoInFor ==
    << N("FunctionDeclaration", 0, 1, {}),
       N("ForStatement", 1, 2, {}),
       N("DoStatement", 2, 3, {}) >>

\* function f() { return (a && b) + 1 }
TreeArithmetic ==
    << N("FunctionDeclaration", 0, 1, {}),
       N("BinaryExpression", 1, 1, {"+"}),
       N("ParenthesizedExpression", 2, 1, {}),
       N("BinaryExpression", 3, 1, {"&&"}) >>

\* a method with k if statements
TreeDecisions(k) ==
    << N("MethodDeclaration", 0, 1, {}) >>
    \o [i \in 1..k |-> N("IfStatement", 1, i + 1, {})]

MixedKinds == <<"IfStatement", "ForStatement", "WhileStatement", "CaseClause",
                "CatchClause", "ConditionalExpression", "BinaryExpression">>

\* a function with k decision points, of the seven counted kinds in turn
TreeMixed(k) ==
    << N("FunctionDeclaration", 0, 1, {}) >>
    \o [i \in 1..k |->
           LET kind == MixedKinds[((i - 1) % Len(MixedKinds)) + 1] IN
           N(kind, 1, i + 1, IF kind = "BinaryExpression" THEN {"||"} ELSE {})]

\* a function with twelve if statements and a method with three
TreeTwoFunctions ==
    << N("FunctionDeclaration", 0, 1, {}) >>
    \o [i \in 1..12 |-> N("IfStatement", 1, i + 1, {})]
    \o << N("MethodDeclaration", 0, 14, {}) >>
    \o [i \in 1..3 |-> N("IfStatement", 14, i + 14, {})]

\* const xs = [ 1001 elements ], const ys = [ 1000 elements ]
TreeArrays ==
    << NA(0, 1, 1001), NA(0, 2, 1000) >>

PerfContents ==
    { Content(TreeForInFor, 5), Content(TreeTripleFor, 6), Content(TreeForInWhile, 5),
      Content(TreeDoInFor, 5), Content(TreeArithmetic, 3),
      Content(TreeDecisions(9), 12), Content(TreeDecisions(10), 13),
      Content(TreeDecisions(20), 23), Content(TreeMixed(16), 19),
      Content(TreeMixed(19), 22), Content(TreeTwoFunctions, 20), Content(TreeArrays, 2) }

\* Two projects; a.ts and c.ts have any of these contents, and no step fails.
InitPerf ==
    /\ tsconfigs = {Dir1, Dir2}
    /\ fault = NoFault
    /\ \E ka, kc \in PerfContents :
          sources = WithImports(
              [f \in FileSet |-> IF f = FileA THEN ka
                                 ELSE IF f = FileC THEN kc ELSE Content(TreePlain, 3)],
              DefaultImports)
    /\ InitAnalyzer
    /\ probe = NoProbe
    /\ smart = NoSmart
    /\ deployment = NoDeployment

PerfSpec == InitPerf /\ [][NextWithoutFault]_vars

FunctionNodes(tree) ==
    {n \in 1..Len(tree) : tree[n].kind \in {"FunctionDeclaration", "MethodDeclaration"}}

AllLoopKinds == {"ForStatement", "ForInStatement", "ForOfStatement",
                 "WhileStatement", "DoStatement"}

\* 1 plus the descendants that are branches, loops of any kind, case or catch
\* clauses, ternaries, or binary expressions whose own operator is && or ||
CountedComplexity(tree, n) ==
    1 + Cardinality({d \in Descendants(tree, n) :
            \/ tree[d].kind \in {"IfStatement", "CaseClause", "CatchClause",
                                 "ConditionalExpression"} \cup AllLoopKinds
            \/ /\ tree[d].kind = "BinaryExpression"
               /\ tree[d].marks \cap {"&&", "||"} # {}})

RECURSIVE SumOver(_, _)
SumOver(S, F) ==
    IF S = {} THEN 0
    ELSE LET x == CHOOSE y \in S : TRUE IN F[x] + SumOver(S \ {x}, F)

FileCountedComplexity(f) ==
    LET tree == sources[f].tree IN
    SumOver(FunctionNodes(tree), [n \in FunctionNodes(tree) |-> CountedComplexity(tree, n)])

\* C15: the complexity of each function is 1 plus its counted descendants,
\* loops of every kind included and binary expressions counted by their own
\* operator only; the summed metric of a finished call is the sum of these.
C15_ComplexityCount ==
    \A c \in Calls : pc[c] = "done" =>
        performanceResults[c].metrics.cyclomaticComplexity =
            SumOver(Range(ProjectOf(c)),
                    [f \in Range(ProjectOf(c)) |-> FileCountedComplexity(f)])

IssuesAt(c, type, f, line) ==
    SelectSeq(performanceResults[c].issues,
              LAMBDA i : i.type = type /\ i.file = f /\ i.line = line)

\* C16: a function gets a complexity issue exactly when its complexity is
\* above 10, one issue only, high exactly when above 20 and medium otherwise.
C16_ComplexityIssue ==
    \A c \in Calls : pc[c] = "done" =>
        \A f \in Range(ProjectOf(c)) : \A n \in FunctionNodes(sources[f].tree) :
            LET cx == FunctionComplexity(sources[f].tree, n)
                found == IssuesAt(c, "complexity", f, sources[f].tree[n].line)
            IN /\ (cx > 10) <=> (found # <<>>)
               /\ Len(found) <= 1
               /\ found # <<>> => (found[1].severity = "high") <=> (cx > 20)
               /\ found # <<>> => found[1].severity \in {"high", "medium"}

\* a function with 16 decision points has complexity 17 and one medium issue
C16_Witness ==
    \E c \in Calls :
        /\ pc[c] = "done"
        /\ \E f \in Range(ProjectOf(c)) :
              /\ sources[f].tree = TreeMixed(16)
              /\ FunctionComplexity(sources[f].tree, 1) = 17
              /\ Len(IssuesAt(c, "complexity", f, 1)) = 1
              /\ IssuesAt(c, "complexity", f, 1)[1].severity = "medium"

\* C17: one loop/high issue at every loop that has a loop among its
\* ancestors, and none at a loop that has not.
C17_NestedLoops ==
    \A c \in Calls : pc[c] = "done" =>
        \A f \in Range(ProjectOf(c)) :
            LET tree == sources[f].tree IN
            \A n \in 1..Len(tree) : tree[n].kind \in AllLoopKinds =>
                LET nested == \E a \in 1..Len(tree) :
                                  IsAncestor(tree, a, n) /\ tree[a].kind \in AllLoopKinds
                    found == IssuesAt(c, "loop", f, tree[n].line)
                IN /\ Len(found) = (IF nested THEN 1 ELSE 0)
                   /\ \A i \in 1..Len(found) : found[i].severity = "high"

\* C18: one memory/medium issue at every array literal of more than 1000
\* elements, none at a smaller one.
C18_LargeArray ==
    \A c \in Calls : pc[c] = "done" =>
        \A f \in Range(ProjectOf(c)) :
            LET tree == sources[f].tree IN
            \A n \in 1..Len(tree) : tree[n].kind = "ArrayLiteralExpression" =>
                LET found == SelectSeq(IssuesAt(c, "memory", f, tree[n].line),
                                       LAMBDA i : i.severity = "medium")
                IN Len(found) = (IF tree[n].elems > 1000 THEN 1 ELSE 0)

----------------------------------------------------------------------------
(* The metric and severity functions on their own *)

\* Largest line count, complexity and number of leak issues given to them.
MaxLines == 24
MaxComplexity == 760
MaxLeaks == 4

Severities == {"low", "medium", "high"}

LeakLists ==
    UNION {[1..n -> {Issue("Timer", sev, FileA, 1) : sev \in Severities}] : n \in 0..MaxLeaks}

\* Performance issues of any severities.
PerformanceLists ==
    UNION {[1..n -> {Issue("loop", sev, FileA, 1) : sev \in Severities}] : n \in 0..2}

DependencyLists == {<<>>, <<FileA>>, <<FileB>>, <<FileA, FileB>>, <<FileB, FileB>>,
                    <<FileA, FileB, FileC>>}

\* Dependency maps of no, one, two or three files.
Graphs ==
    UNION {{[i \in 1..n |-> [name |-> SourceFiles[i], dependencies |-> deps[i],
                              weight |-> Len(deps[i])]] :
               deps \in [1..n -> DependencyLists]} : n \in 0..Len(SourceFiles)}

\* No project, and an analyzer on which analyzeProject is not called.
InitUnused ==
    /\ tsconfigs = {}
    /\ fault = NoFault
    /\ sources = WithImports([f \in FileSet |-> Content(TreePlain, 3)], DefaultImports)
    /\ InitAnalyzer

InitPure ==
    /\ InitUnused
    /\ smart = NoSmart
    /\ deployment = NoDeployment
    /\ \/ \E loc \in 1..MaxLines, cc \in 0..MaxComplexity :
             probe = [NoProbe EXCEPT !.fn = "calculateMaintainabilityIndex",
                                     !.metrics = [cyclomaticComplexity |-> cc,
                                                  linesOfCode |-> loc]]
       \/ \E issues \in LeakLists :
             probe = [NoProbe EXCEPT !.fn = "calculateOverallSeverity",
                                     !.issues = issues]
       \/ \E g \in Graphs :
             probe = [NoProbe EXCEPT !.fn = "calculateMetrics", !.graph = g]
       \/ \E issues \in PerformanceLists, leaks \in LeakLists :
             probe = [NoProbe EXCEPT !.fn = "generateSummary",
                                     !.performanceIssues = issues, !.issues = leaks]

\* metrics.maintainabilityIndex = this.calculateMaintainabilityIndex(metrics)
ApplyMaintainabilityIndex ==
    /\ probe.fn = "calculateMaintainabilityIndex"
    /\ ~probe.done
    /\ probe' = [probe EXCEPT !.maintainabilityIndex = calculateMaintainabilityIndex(probe.metrics),
                              !.done = TRUE]
    /\ UNCHANGED <<tsconfigs, sources, fault, analyzerVars, pc, projectPath, searchVars,
                   resultVars, invoked, raised, outcome, cliVars>>

\* const severity = this.calculateOverallSeverity(issues)
ApplyOverallSeverity ==
    /\ probe.fn = "calculateOverallSeverity"
    /\ ~probe.done
    /\ probe' = [probe EXCEPT !.severity = calculateOverallSeverity(probe.issues),
                              !.done = TRUE]
    /\ UNCHANGED <<tsconfigs, sources, fault, analyzerVars, pc, projectPath, searchVars,
                   resultVars, invoked, raised, outcome, cliVars>>

\* const metrics = this.calculateMetrics()
ApplyCalculateMetrics ==
    /\ probe.fn = "calculateMetrics"
    /\ ~probe.done
    /\ probe' = [probe EXCEPT !.dependencyMetrics = calculateMetrics(probe.graph),
                              !.done = TRUE]
    /\ UNCHANGED <<tsconfigs, sources, fault, analyzerVars, pc, projectPath, searchVars,
                   resultVars, invoked, raised, outcome, cliVars>>

\* summary: this.generateSummary(results)
ApplyGenerateSummary ==
    /\ probe.fn = "generateSummary"
    /\ ~probe.done
    /\ probe' = [probe EXCEPT
           !.summary = generateSummary(
               [performance |-> [issues |-> probe.performanceIssues],
                memoryLeaks |-> [potentialLeaks |-> probe.issues],
                dependencies |-> NoDependencies]),
           !.done = TRUE]
    /\ UNCHANGED <<tsconfigs, sources, fault, analyzerVars, pc, projectPath, searchVars,
                   resultVars, invoked, raised, outcome, cliVars>>

PureNext ==
    \/ ApplyMaintainabilityIndex
    \/ ApplyOverallSeverity
    \/ ApplyCalculateMetrics
    \/ ApplyGenerateSummary

PureSpec == InitPure /\ [][PureNext]_vars

\* C19: for a line count of at least 1 and a complexity of at least 0 the
\* maintainability index is an integer from 0 to 100.
C19_IndexRange ==
    (/\ probe.fn = "calculateMaintainabilityIndex"
     /\ probe.done
     /\ probe.metrics.linesOfCode >= 1
     /\ probe.metrics.cyclomaticComplexity >= 0)
    => /\ ~probe.maintainabilityIndex.infinite
       /\ probe.maintainabilityIndex.value \in 0..100

\* the lower limit acts: 171 - HV - CC is negative and the index is 0
C19_Witness ==
    /\ probe.fn = "calculateMaintainabilityIndex"
    /\ probe.done
    /\ IndexNumerator(probe.metrics) < 0
    /\ probe.maintainabilityIndex = Finite(0)

\* C20: the overall severity is high with at least one high issue, else
\* medium with more than two medium issues, else low.
C20_OverallSeverity ==
    (probe.fn = "calculateOverallSeverity" /\ probe.done) =>
        LET high == {i \in 1..Len(probe.issues) : probe.issues[i].severity = "high"}
            medium == {i \in 1..Len(probe.issues) : probe.issues[i].severity = "medium"}
        IN probe.severity = (IF high # {} THEN "high"
                             ELSE IF Cardinality(medium) > 2 THEN "medium"
                             ELSE "low")

\* exactly two medium issues and no high one give low
C20_Witness ==
    /\ probe.fn = "calculateOverallSeverity"
    /\ probe.done
    /\ Len(probe.issues) = 3
    /\ Cardinality({i \in 1..3 : probe.issues[i].severity = "medium"}) = 2
    /\ Cardinality({i \in 1..3 : probe.issues[i].severity = "low"}) = 1
    /\ probe.severity = "low"

----------------------------------------------------------------------------
(* Suggestions of the leak detector *)

LeakSuggestions(c) ==
    {SuggestionOf(memoryResults[c].potentialLeaks[i]) :
        i \in 1..Len(memoryResults[c].potentialLeaks)}

\* C21: the suggestions of a returned leak result hold no string twice, hold
\* the suggestion of every reported leak, end with the three general
\* suggestions, and number the distinct per-issue suggestions plus three.
C21_Suggestions ==
    \A c \in Calls : "memory" \in Range(invoked[c]) /\ pc[c] \notin {"threw", "failed"} =>
        LET sg == memoryResults[c].suggestions IN
        /\ \A i, j \in 1..Len(sg) : sg[i] = sg[j] => i = j
        /\ LeakSuggestions(c) \subseteq Range(sg)
        /\ Len(sg) = Cardinality(LeakSuggestions(c)) + 3
        /\ SubSeq(sg, Len(sg) - 2, Len(sg)) = GeneralSuggestions

\* several leaks share one suggestion
C21_Witness ==
    \E c \in Calls :
        /\ pc[c] = "done"
        /\ Len(memoryResults[c].potentialLeaks) > Cardinality(LeakSuggestions(c))
        /\ Cardinality(LeakSuggestions(c)) = 4
        /\ Len(memoryResults[c].suggestions) = 7

----------------------------------------------------------------------------
(* Dependency metrics and critical issues *)

DependencyCounts(g) == [i \in 1..Len(g) |-> Len(g[i].dependencies)]

\* C22: totalFiles is the number of entries, maxDependencies the largest
\* dependency-list length (0 without entries), averageDependencies the sum of
\* the lengths over totalFiles (0 without entries) and never above the maximum.
C22_Metrics ==
    (probe.fn = "calculateMetrics" /\ probe.done) =>
        LET g == probe.graph
            m == probe.dependencyMetrics
            counts == DependencyCounts(g)
            avg == m.averageDependencies
        IN /\ m.totalFiles = Len(g)
           /\ \A i \in 1..Len(g) : counts[i] <= m.maxDependencies
           /\ g # <<>> => \E i \in 1..Len(g) : counts[i] = m.maxDependencies
           /\ g = <<>> => m.maxDependencies = 0 /\ avg.num = 0
           /\ avg.den > 0
           /\ g # <<>> => avg.num * m.totalFiles = SumSeq(counts) * avg.den
           /\ avg.num <= m.maxDependencies * avg.den

\* the largest list is not the last and the average is below the maximum
C22_Witness ==
    /\ probe.fn = "calculateMetrics"
    /\ probe.done
    /\ Len(probe.graph) = 3
    /\ Len(probe.graph[1].dependencies) = 3
    /\ Len(probe.graph[3].dependencies) = 1
    /\ probe.dependencyMetrics.maxDependencies = 3
    /\ probe.dependencyMetrics.averageDependencies.num
           < 3 * probe.dependencyMetrics.averageDependencies.den

\* C23: criticalIssues is the number of high performance issues plus the
\* number of high leak issues, and is at most totalIssues.
C23_CriticalIssues ==
    (probe.fn = "generateSummary" /\ probe.done) =>
        /\ probe.summary.criticalIssues =
               Cardinality({i \in 1..Len(probe.performanceIssues) :
                               probe.performanceIssues[i].severity = "high"})
               + Cardinality({i \in 1..Len(probe.issues) :
                                 probe.issues[i].severity = "high"})
        /\ probe.summary.criticalIssues <= probe.summary.totalIssues

\* high issues of both detectors among others
C23_Witness ==
    /\ probe.fn = "generateSummary"
    /\ probe.done
    /\ CountSeverity(probe.performanceIssues, "high") = 1
    /\ CountSeverity(probe.issues, "high") = 2
    /\ probe.summary.criticalIssues = 3
    /\ probe.summary.totalIssues = 6

----------------------------------------------------------------------------
(* Overlapping calls on the one analyzer *)

\* Positions inside a synchronous stretch of analyzeProject; at the other
\* positions the call has not started, is suspended at an await, or is over.
Running == {"search", "load", "detectCycles", "calculateMetrics"}

\* Call c may take a step: no other call is inside a synchronous stretch.
MayStep(c) == \A d \in Calls \ {c} : pc[d] \notin Running

\* analyzeProject(p) is called while the earlier calls are suspended or over.
BeginOverlapped(c, p) ==
    /\ pc[c] = "idle"
    /\ IF c = 1 THEN TRUE ELSE pc[c - 1] # "idle"
    /\ projectPath' = [projectPath EXCEPT ![c] = p]
    /\ IF ~ExistsSync(p)
       THEN /\ raised' = [raised EXCEPT ![c] = "ProjectNotFound"]
            /\ outcome' = [outcome EXCEPT ![c] = Rejected("ProjectNotFound")]
            /\ pc' = [pc EXCEPT ![c] = "failed"]
            /\ UNCHANGED searchVars
       ELSE /\ currentPath' = [currentPath EXCEPT ![c] = p]
            /\ pc' = [pc EXCEPT ![c] = "search"]
            /\ UNCHANGED <<raised, outcome, iteration, tsconfigPath>>
    /\ UNCHANGED <<env, analyzerVars, resultVars, invoked>>

OverlapNext ==
    \E c \in Calls :
        /\ MayStep(c)
        /\ \/ \E p \in ProjectPaths : BeginOverlapped(c, p)
           \/ FindStep(c)
           \/ RunPerformance(c)
           \/ RunMemory(c)
           \/ RunDependencies(c)
           \/ DetectCycles(c)
           \/ CalculateMetrics(c)
           \/ Catch(c)
           \/ Finish(c)

OverlapSpec == InitOrder /\ [][OverlapNext]_vars

\* C24: the three results of a call come from the project of that call, also
\* when another call ran while it was suspended.
C24_OwnProject ==
    \A c \in Calls : pc[c] = "done" =>
        /\ performanceResults[c] = PerformanceAnalyze(ProjectOf(c))
        /\ memoryResults[c] = MemoryDetect(ProjectOf(c))
        /\ \A f \in Range(ProjectOf(c)) :
              \E i \in 1..Len(dependencyResults[c].graph) :
                  dependencyResults[c].graph[i].id = f

----------------------------------------------------------------------------
(* Cycle detection *)

\* analyze has returned the dependencies of call c
Returned(c) == pc[c] \in {"awaitDependencies", "done"}

GraphNodes(graph) ==
    {graph[i].id : i \in 1..Len(graph)}
    \cup UNION {Range(graph[i].dependencies) : i \in 1..Len(graph)}

Successors(graph, S) ==
    UNION {Range(graph[i].dependencies) : i \in {j \in 1..Len(graph) : graph[j].id \in S}}

\* the nodes reached from S by one or more edges
RECURSIVE ReachedFrom(_, _, _)
ReachedFrom(graph, S, seen) ==
    LET next == Successors(graph, S) \ seen IN
    IF next = {} THEN seen ELSE ReachedFrom(graph, next, seen \cup next)

HasDirectedCycle(graph) ==
    \E n \in GraphNodes(graph) : n \in ReachedFrom(graph, {n}, {})

\* C25: no cycle is reported exactly when the graph of the dependency lists
\* has no directed cycle, a self-import being one.
C25_CycleIffReported ==
    \A c \in Calls : Returned(c) =>
        (dependencyResults[c].circularDependencies = <<>>)
            <=> ~HasDirectedCycle(dependencyResults[c].graph)

\* a cycle that the search from the first entry does not meet
C25_Witness ==
    \E c \in Calls :
        /\ Returned(c)
        /\ dependencyResults[c].circularDependencies # <<>>
        /\ LET graph == dependencyResults[c].graph IN
           graph[1].id \notin ReachedFrom(graph, {graph[1].id}, {})
           /\ \A n \in ReachedFrom(graph, {graph[1].id}, {}) :
                 n \notin ReachedFrom(graph, {n}, {})

\* C26: at every call of dfs the path has no repeated element, ends with the
\* node and holds exactly the members of recursionStack; a recorded cycle
\* starts with the revisited dependency, which is in the path, and ends with
\* the current node.
C26_PathIsStack ==
    \A c \in Calls : Returned(c) =>
        LET r == dependencyResults[c] IN
        /\ \A k \in 1..Len(r.calls) :
              LET call == r.calls[k] IN
              /\ \A i, j \in 1..Len(call.path) : call.path[i] = call.path[j] => i = j
              /\ call.path # <<>> /\ Last(call.path) = call.node
              /\ Range(call.path) = call.stack
        /\ \A k \in 1..Len(r.hits) :
              /\ IndexOf(r.hits[k].path, r.hits[k].dep) > 0
              /\ Head(r.circularDependencies[k]) = r.hits[k].dep
              /\ Last(r.circularDependencies[k]) = r.hits[k].node

\* a call of dfs made after an earlier call on another branch has returned,
\* and a recorded cycle shorter than the path
C26_Witness ==
    \E c \in Calls :
        /\ Returned(c)
        /\ LET r == dependencyResults[c] IN
           /\ \E k \in 1..Len(r.calls) :
                 {r.calls[j].node : j \in 1..(k - 1)} \ r.calls[k].stack # {}
           /\ \E k \in 1..Len(r.hits) :
                 Len(r.circularDependencies[k]) < Len(r.hits[k].path)

\* C27: cycle detection returns with dfs entered at most once for each node
\* and with an empty recursionStack.
C27_DetectionTerminates ==
    \A c \in Calls : Returned(c) =>
        LET r == dependencyResults[c] IN
        /\ \A i, j \in 1..Len(r.calls) : r.calls[i].node = r.calls[j].node => i = j
        /\ {r.calls[i].node : i \in 1..Len(r.calls)} \subseteq GraphNodes(r.graph)
        /\ r.recursionStack = {}

\* a graph with a self-import, a longer cycle and a target that is no entry
C27_Witness ==
    \E c \in Calls :
        /\ Returned(c)
        /\ LET r == dependencyResults[c] IN
           /\ \E i \in 1..Len(r.graph) : r.graph[i].id \in Range(r.graph[i].dependencies)
           /\ \E k \in 1..Len(r.circularDependencies) : Len(r.circularDependencies[k]) >= 2
           /\ \E k \in 1..Len(r.calls) :
                 \A i \in 1..Len(r.graph) : r.graph[i].id # r.calls[k].node

----------------------------------------------------------------------------
(* Severities of the leak detector *)

LeakSeverity(type) ==
    IF type \in {"EventListenerLeak", "TimerLeak"} THEN "medium" ELSE "low"

\* C28: no leak issue is high (event-listener and timer issues are medium,
\* closure and accumulation issues low), the overall leak severity is low or
\* medium, and criticalIssues is the number of high performance issues.
C28_NoHighLeak ==
    \A c \in Calls :
        /\ \A i \in 1..Len(memoryResults[c].potentialLeaks) :
              LET leak == memoryResults[c].potentialLeaks[i] IN
              /\ leak.type \in {"EventListenerLeak", "ClosureLeak", "TimerLeak",
                                "ObjectAccumulation"}
              /\ leak.severity = LeakSeverity(leak.type)
        /\ memoryResults[c].severity \in {"low", "medium"}
        /\ Resolved(c) =>
              outcome[c].summary.criticalIssues =
                  Cardinality({i \in 1..Len(performanceResults[c].issues) :
                                  performanceResults[c].issues[i].severity = "high"})

\* leaks of all four types, overall severity medium, and a high performance issue
C28_Witness ==
    \E c \in Calls :
        /\ Resolved(c)
        /\ {memoryResults[c].potentialLeaks[i].type :
               i \in 1..Len(memoryResults[c].potentialLeaks)}
           = {"EventListenerLeak", "ClosureLeak", "TimerLeak", "ObjectAccumulation"}
        /\ memoryResults[c].severity = "medium"
        /\ outcome[c].summary.criticalIssues > 0

----------------------------------------------------------------------------
(* SmartCommandManager.  A command string is the sequence of its words, '' has *)
(* no word.  aliases is the object read from the configuration: a function    *)
(* from its own keys, on top of the members every object inherits.            *)

\* Number of executeCommand and addToHistory calls made on the one manager.
MaxExecutions == 3

HistoryLimit == 50

DefaultCommands == {"analyze", "init", "backup"}

\* 'backup x ... x' with n words x: n different commands
Filler(n) == <<"backup">> \o [i \in 1..n |-> "x"]

\* Members that a plain object inherits from Object.prototype.
InheritedMembers == {<<"constructor">>, <<"toString">>}
Inherited(name) == [type |-> "function", text |-> name]

\* this.aliases[commandName]
GetAlias(aliases, name) ==
    IF name \in DOMAIN aliases THEN aliases[name]
    ELSE IF name \in InheritedMembers THEN Inherited(name)
    ELSE Undefined

\* the truthiness of a value in a || b
Truthy(v) == v.type = "function" \/ (v.type = "string" /\ v.text # <<>>)

Take(s, n) == IF Len(s) <= n THEN s ELSE SubSeq(s, 1, n)

\* [command, ...this.history.filter(cmd => cmd !== command)].slice(0, 50)
addToHistory(history, command) ==
    Take(<< command >> \o SelectSeq(history, LAMBDA cmd : cmd # command), HistoryLimit)

\* What executeCommand does after addToHistory: the built-in command is run,
\* the command is reported as unknown, or split is called on a value that is
\* no string and the error is caught.
Dispatch(resolvedCommand) ==
    IF resolvedCommand.type # "string" THEN "error"
    ELSE IF resolvedCommand.text # <<>> /\ Head(resolvedCommand.text) \in DefaultCommands
         THEN "builtin"
         ELSE "unknown"

\* executeCommand(commandName)
ExecuteCommand(commandName) ==
    /\ smart.executed + smart.added < MaxExecutions
    /\ LET found == GetAlias(smart.aliases, commandName)
           resolvedCommand == IF Truthy(found) THEN found ELSE Str(commandName)
       IN smart' = [smart EXCEPT !.history = addToHistory(@, resolvedCommand),
                                 !.executed = @ + 1,
                                 !.commandName = Str(commandName),
                                 !.outcome = Dispatch(resolvedCommand)]
    /\ UNCHANGED <<tsconfigs, sources, fault, probe, deployment, analyzerVars, pc,
                   projectPath, searchVars, resultVars, invoked, raised, outcome>>

\* addToHistory(command) called on the manager itself: the method is public
AddToHistory(command) ==
    /\ smart.executed + smart.added < MaxExecutions
    /\ smart' = [smart EXCEPT !.history = addToHistory(@, Str(command)),
                              !.added = @ + 1]
    /\ UNCHANGED <<tsconfigs, sources, fault, probe, deployment, analyzerVars, pc,
                   projectPath, searchVars, resultVars, invoked, raised, outcome>>

\* createAlias(alias, command): this.aliases[alias] = command
CreateAlias(alias, command) ==
    /\ smart' = [smart EXCEPT !.aliases =
           [n \in DOMAIN smart.aliases \cup {alias} |->
               IF n = alias THEN Str(command) ELSE smart.aliases[n]]]
    /\ UNCHANGED <<tsconfigs, sources, fault, probe, deployment, analyzerVars, pc,
                   projectPath, searchVars, resultVars, invoked, raised, outcome>>

CommandNames ==
    { <<"analyze">>, <<"deploy">>, <<"a">>, <<"constructor">>,
      Filler(1), Filler(2), Filler(HistoryLimit), Filler(HistoryLimit + 1) }

AliasCommands == { <<"analyze", "--deep">>, Filler(2), <<>> }

AddedCommands == { <<"analyze">>, Filler(1), Filler(HistoryLimit + 1) }

SmartNext ==
    \/ \E commandName \in CommandNames : ExecuteCommand(commandName)
    \/ \E command \in AddedCommands : AddToHistory(command)
    \/ \E command \in AliasCommands : CreateAlias(<<"a">>, command)

\* The history read from the configuration: none, or the last 2, 49 or 50
\* different commands of earlier runs.
PersistedHistories ==
    {[i \in 1..k |-> Str(Filler(i))] : k \in {0, 2, HistoryLimit - 1, HistoryLimit}}

InitSmart ==
    /\ InitUnused
    /\ probe = NoProbe
    /\ deployment = NoDeployment
    /\ \E h \in PersistedHistories : smart = [NoSmart EXCEPT !.history = h]

SmartSpec == InitSmart /\ [][SmartNext]_vars

\* The alias given to a command name, or the name itself.
AliasResolved(aliases, name) ==
    IF name \in DOMAIN aliases /\ aliases[name].text # <<>> THEN aliases[name]
    ELSE Str(name)

\* C29: the history never holds an entry twice nor more than 50 entries; an
\* executeCommand puts the alias-resolved command first, and when that command
\* was in the history already the other entries keep their order.
C29_History ==
    /\ [](/\ \A i, j \in 1..Len(smart.history) :
                smart.history[i] = smart.history[j] => i = j
          /\ Len(smart.history) <= 50)
    /\ [][smart'.executed = smart.executed + 1 =>
            LET r == AliasResolved(smart.aliases, smart'.commandName.text)
                Others(h) == SelectSeq(h, LAMBDA cmd : cmd # r)
            IN /\ Head(smart'.history) = r
               /\ r \in Range(smart.history) =>
                     Others(smart'.history) = Others(smart.history)]_vars

----------------------------------------------------------------------------
(* DeploymentManager.  deployCommand makes one manager and calls deploy once. *)
(* The environment decides which CLIs answer --version, what the user answers *)
(* to the prompts, and whether npm install and the platform's command succeed.*)

Platforms == {"vercel", "netlify", "aws", "azure", "gcp"}

Platform(name) == Str(<< name >>)

\* tsa.config.json: missing, without a deployment section, with a deployment
\* section that has no defaultPlatform, or with one that names a platform.
ConfigFiles ==
    {[exists |-> FALSE, deployment |-> FALSE, defaultPlatform |-> Undefined],
     [exists |-> TRUE, deployment |-> FALSE, defaultPlatform |-> Undefined],
     [exists |-> TRUE, deployment |-> TRUE, defaultPlatform |-> Undefined]}
    \cup {[exists |-> TRUE, deployment |-> TRUE, defaultPlatform |-> Platform(p)]
             : p \in {"aws", "netlify"}}

\* the defaultPlatform of this.config.deployment after loadConfig
loadConfig(file) ==
    IF file.deployment THEN file.defaultPlatform ELSE Platform("vercel")

\* verifyDependencies(platform): the platform is known and its CLI answers
verifyDependencies(platform, installed) ==
    /\ platform.type = "string"
    /\ \E p \in Platforms : platform = Platform(p) /\ p \in installed

\* installDependencies has a package for the platform
HasPackage(platform) ==
    platform.type = "string" /\ \E p \in Platforms : platform = Platform(p)

\* verifyDependencies(options.platform!) is called and deploy is suspended at
\* its await
VerifyStep(d) ==
    [d EXCEPT !.verified = Append(@, d.optionsPlatform),
              !.hasDepInstalled = verifyDependencies(d.optionsPlatform, d.installed),
              !.pc = "awaitVerify"]

\* the switch of deploy: the platform's deploy method is called and deploy is
\* suspended at its await, or the default branch ends deploy
PlatformStep(d, succeeds) ==
    IF HasPackage(d.optionsPlatform)
    THEN [d EXCEPT !.ran = Append(@, d.optionsPlatform),
                   !.threw = ~succeeds,
                   !.pc = "awaitDeploy"]
    ELSE [d EXCEPT !.unsupported = TRUE, !.pc = "done", !.outcome = "unsupported"]

NewDeployment(file, installed) ==
    [pc |-> "new", file |-> file, installed |-> installed,
     defaultPlatform |-> Undefined, given |-> Undefined,
     optionsPlatform |-> Undefined, platform |-> Undefined,
     hasDepInstalled |-> FALSE, threw |-> FALSE,
     verified |-> <<>>, ran |-> <<>>, unsupported |-> FALSE, outcome |-> "none"]

\* new DeploymentManager(): loadConfig, which exits without a configuration
Construct ==
    /\ deployment.pc = "new"
    /\ deployment' =
          IF deployment.file.exists
          THEN [deployment EXCEPT !.pc = "ready",
                                  !.defaultPlatform = loadConfig(deployment.file)]
          ELSE [deployment EXCEPT !.pc = "done", !.outcome = "exit"]
    /\ UNCHANGED <<tsconfigs, sources, fault, probe, smart, analyzerVars, pc,
                   projectPath, searchVars, resultVars, invoked, raised, outcome>>

\* deploy(options) up to its first await: the platform prompt, or the call of
\* verifyDependencies
Deploy(optionsPlatform) ==
    /\ deployment.pc = "ready"
    /\ LET platform == IF optionsPlatform = Undefined
                       THEN deployment.defaultPlatform ELSE optionsPlatform
           d == [deployment EXCEPT !.given = optionsPlatform,
                                   !.optionsPlatform = optionsPlatform,
                                   !.platform = platform]
       IN deployment' = IF platform = Undefined
                        THEN [d EXCEPT !.pc = "promptPlatform"]
                        ELSE VerifyStep(d)
    /\ UNCHANGED <<tsconfigs, sources, fault, probe, smart, analyzerVars, pc,
                   projectPath, searchVars, resultVars, invoked, raised, outcome>>

\* the answer to 'Select deployment platform:', up to the await of
\* verifyDependencies
AnswerPlatform(choice) ==
    /\ deployment.pc = "promptPlatform"
    /\ deployment' = VerifyStep([deployment EXCEPT !.optionsPlatform = Platform(choice)])
    /\ UNCHANGED <<tsconfigs, sources, fault, probe, smart, analyzerVars, pc,
                   projectPath, searchVars, resultVars, invoked, raised, outcome>>

\* deploy resumes with hasDepInstalled: the install prompt, or the switch
AfterVerify(succeeds) ==
    /\ deployment.pc = "awaitVerify"
    /\ deployment' = IF deployment.hasDepInstalled
                     THEN PlatformStep(deployment, succeeds)
                     ELSE [deployment EXCEPT !.pc = "promptInstall"]
    /\ UNCHANGED <<tsconfigs, sources, fault, probe, smart, analyzerVars, pc,
                   projectPath, searchVars, resultVars, invoked, raised, outcome>>

\* the answer to '... CLI is not installed. Would you like to install it?':
\* the cancellation, or installDependencies up to its await
AnswerInstall(install, installs) ==
    /\ deployment.pc = "promptInstall"
    /\ deployment' =
          IF ~install
          THEN [deployment EXCEPT !.pc = "done", !.outcome = "cancelled"]
          ELSE IF ~HasPackage(deployment.optionsPlatform)
          THEN [deployment EXCEPT !.pc = "awaitInstall", !.threw = FALSE]
          ELSE IF installs
          THEN [deployment EXCEPT !.pc = "awaitInstall", !.threw = FALSE,
                   !.installed = @ \cup {Head(deployment.optionsPlatform.text)}]
          ELSE [deployment EXCEPT !.pc = "awaitInstall", !.threw = TRUE]
    /\ UNCHANGED <<tsconfigs, sources, fault, probe, smart, analyzerVars, pc,
                   projectPath, searchVars, resultVars, invoked, raised, outcome>>

\* deploy resumes after installDependencies: its error leaves deploy, which
\* has no try around it, or the switch follows
AfterInstall(succeeds) ==
    /\ deployment.pc = "awaitInstall"
    /\ deployment' =
          IF deployment.threw
          THEN [deployment EXCEPT !.pc = "done", !.outcome = "rejected"]
          ELSE PlatformStep(deployment, succeeds)
    /\ UNCHANGED <<tsconfigs, sources, fault, probe, smart, analyzerVars, pc,
                   projectPath, searchVars, resultVars, invoked, raised, outcome>>

\* deploy resumes after the platform's deploy method: its end, or the catch
\* with process.exit(1)
AfterDeploy ==
    /\ deployment.pc = "awaitDeploy"
    /\ deployment' = [deployment EXCEPT !.pc = "done",
                         !.outcome = IF deployment.threw THEN "exit" ELSE "deployed"]
    /\ UNCHANGED <<tsconfigs, sources, fault, probe, smart, analyzerVars, pc,
                   projectPath, searchVars, resultVars, invoked, raised, outcome>>

\* --platform as given on the command line, or not given
OptionPlatforms == {Undefined, Platform("vercel"), Platform("aws"), Platform("heroku")}

DeployNext ==
    \/ Construct
    \/ \E o \in OptionPlatforms : Deploy(o)
    \/ \E choice \in Platforms : AnswerPlatform(choice)
    \/ \E succeeds \in BOOLEAN : AfterVerify(succeeds)
    \/ \E install, installs \in BOOLEAN : AnswerInstall(install, installs)
    \/ \E succeeds \in BOOLEAN : AfterInstall(succeeds)
    \/ AfterDeploy

InitDeploy ==
    /\ InitUnused
    /\ probe = NoProbe
    /\ smart = NoSmart
    /\ \E file \in ConfigFiles, installed \in SUBSET {"vercel", "aws", "netlify"} :
          deployment = NewDeployment(file, installed)

DeploySpec == InitDeploy /\ [][DeployNext]_vars

\* C30: in a deploy without a platform option under a configuration with a
\* defaultPlatform, every CLI verified and every deploy step run is the
\* default platform's, and the unsupported-platform branch is not taken.
C30_DefaultPlatform ==
    ( /\ deployment.pc \notin {"none", "new", "ready"}
      /\ deployment.given = Undefined
      /\ deployment.defaultPlatform # Undefined )
    => /\ \A i \in 1..Len(deployment.verified) :
             deployment.verified[i] = deployment.defaultPlatform
       /\ deployment.verified # <<>>
       /\ \A i \in 1..Len(deployment.ran) :
             deployment.ran[i] = deployment.defaultPlatform
       /\ ~deployment.unsupported

====
